---- MODULE Spec2Model ----
(***************************************************************************)
(* BBF container format: the Builder (src/src/builder.rs), the zero-copy   *)
(* buffer Reader (src/bbf/src/reader.rs) and the owned-copy stream Reader  *)
(* (src/src/reader.rs), over the packed little-endian layout of            *)
(* src/src/format.rs.                                                      *)
(*                                                                         *)
(* A file is a byte string.  It is kept as a sequence of runs              *)
(* [zeros |-> n, bytes |-> <<..>>] (n zero bytes followed by literal       *)
(* bytes), one run per write_all, so the 4096-byte alignment padding does  *)
(* not have to be stored byte by byte.  Offsets are 0-based as in the      *)
(* code.  A 64-bit or 32-bit field read from a file is its little-endian   *)
(* byte tuple; arithmetic on such fields is done on the byte tuples, so    *)
(* that overflow of the full 64-bit width is represented exactly.          *)
(***************************************************************************)
EXTENDS Integers, Sequences, FiniteSets, TLC

\* ---------------------------------------------------------------- bounds
\* total number of add_page / add_section / add_metadata calls on a builder
MaxCalls == 2
\* the number of threads that share one BbfBuilder
MaxThreads == 2
\* the number of calls made on one BbfBuilder or CBbfBuilder pointer
MaxOps == 3
\* the most input files of one bbfmux run
MaxPlan == 4
\* the most input files and section directives of one run that builds
MaxInputs == 2
MaxDirectives == 3
\* the most sections of a book handed to bbfmux extract
MaxBookSections == 3

\* ------------------------------------------------------ layout constants
HEADER_SIZE == 19
FOOTER_SIZE == 76
ASSET_SIZE == 64
PAGE_SIZE == 8
SECTION_SIZE == 12
META_SIZE == 8
ALIGN == 4096
NO_PARENT == <<255, 255, 255, 255>>

MAGIC == <<66, 66, 70, 49>>

Unknown == 0
Avif == 1
Png == 2
Webp == 3
Jxl == 4
Bmp == 5
Gif == 7
Tiff == 8
Jpg == 9

\* --------------------------------------------------- little-endian fields
Zeros(n) == [i \in 1..n |-> 0]

RECURSIVE LE(_, _)
\* the w-byte little-endian encoding of the natural number v
LE(v, w) == IF w = 0 THEN <<>> ELSE <<v % 256>> \o LE(v \div 256, w - 1)

U64(v) == LE(v, 8)
U32(v) == LE(v, 4)
U16(v) == LE(v, 2)

\* a field whose value is below 2^24 (every length the model can reach)
Small(f) == \A i \in 4..Len(f) : f[i] = 0

\* the value of a small field
Val(f) == f[1] + 256 * f[2] + 65536 * f[3]

\* unsigned comparison of two fields of equal width
Less(a, b) ==
    \E i \in 1..Len(a) : a[i] < b[i] /\ \A j \in (i + 1)..Len(a) : a[j] = b[j]

Leq(a, b) == a = b \/ Less(a, b)

RECURSIVE AddCarry(_, _, _)
\* byte-wise sum of two fields of equal width with carry c; the carry out
\* is appended as one extra element
AddCarry(a, b, c) ==
    IF a = <<>> THEN <<c>>
    ELSE LET s == a[1] + b[1] + c
         IN <<s % 256>> \o AddCarry(Tail(a), Tail(b), s \div 256)

\* u64::checked_add: <<>> stands for None
checked_add(a, b) ==
    LET r == AddCarry(a, b, 0)
    IN IF r[Len(r)] = 0 THEN SubSeq(r, 1, Len(a)) ELSE <<>>

RECURSIVE MulCarry(_, _, _)
MulCarry(a, k, c) ==
    IF a = <<>> THEN <<c>>
    ELSE LET p == a[1] * k + c
         IN <<p % 256>> \o MulCarry(Tail(a), k, p \div 256)

\* u64::checked_mul by a small factor k: <<>> stands for None
checked_mul(a, k) ==
    LET r == MulCarry(a, k, 0)
    IN IF r[Len(r)] = 0 THEN SubSeq(r, 1, Len(a)) ELSE <<>>

\* u64::from(u32)
U64From(c) == c \o Zeros(4)

\* ------------------------------------------------------------ byte files
Run(z, bs) == [zeros |-> z, bytes |-> bs]

RunLen(r) == r.zeros + Len(r.bytes)

RECURSIVE FileLen(_)
FileLen(f) == IF f = <<>> THEN 0 ELSE RunLen(Head(f)) + FileLen(Tail(f))

\* marks a read at an offset that is not inside the buffer (not a byte)
OUTSIDE == 256

RECURSIVE ByteAt(_, _)
\* the byte at 0-based offset i of f
ByteAt(f, i) ==
    IF f = <<>> THEN OUTSIDE
    ELSE LET r == Head(f)
         IN IF i < r.zeros THEN 0
            ELSE IF i < RunLen(r) THEN r.bytes[i - r.zeros + 1]
            ELSE ByteAt(Tail(f), i - RunLen(r))

\* the bytes [start, start + len) of f
Slice(f, start, len) == [k \in 1..len |-> ByteAt(f, start + k - 1)]

\* Write::write_all on the in-memory sink
write_all(w, bs) == Append(w, Run(0, bs))

\* ---------------------------------------------------------------- hashing
RECURSIVE SumBytes(_)
\* the sum of the bytes of bs, by halving
SumBytes(bs) ==
    IF Len(bs) = 0 THEN 0
    ELSE IF Len(bs) = 1 THEN bs[1]
    ELSE LET h == Len(bs) \div 2
         IN SumBytes(SubSeq(bs, 1, h)) + SumBytes(SubSeq(bs, h + 1, Len(bs)))

\* xxh3_64 of the external xxhash crate: a deterministic function from byte
\* strings to 64-bit values.  Like every 64-bit hash it maps distinct byte
\* strings to one value; the stand-in does so for strings that are
\* permutations of each other, and tells apart strings that differ in
\* length or in a single byte.
xxh3_64(data) == (Len(data) * 65599 + SumBytes(data) * 31) % 16777216

\* ------------------------------------------------------------ row layouts
header_as_bytes == MAGIC \o <<2>> \o U32(0) \o U16(HEADER_SIZE) \o U64(0)

asset_as_bytes(e) ==
    U64(e.offset) \o U64(e.length) \o U64(e.decoded_length) \o U64(e.xxh3_hash)
    \o <<e.type_, e.flags>> \o Zeros(6) \o Zeros(24)

page_as_bytes(p) == U32(p.asset_index) \o U32(p.flags)

section_as_bytes(s) ==
    U32(s.section_title_offset) \o U32(s.section_start_index)
    \o s.parent_section_index

meta_as_bytes(m) == U32(m.key_offset) \o U32(m.val_offset)

footer_as_bytes(f) ==
    f.string_pool_offset \o f.asset_table_offset \o f.asset_count
    \o f.page_table_offset \o f.page_count
    \o f.section_table_offset \o f.section_count
    \o f.meta_table_offset \o f.key_count
    \o f.extra_offset \o f.index_hash \o f.magic


\* ------------------------------------------------------------ input sets
\* page payloads: the empty payload, and two payloads with one content hash
Payloads == {<<>>, <<1, 2>>, <<2, 1>>}
MediaTypes == {Png, Jpg}
Flags == {0, 1}
\* "", "a" and "a\0b" (a Rust &str may hold NUL)
Strings == {<<>>, <<97>>, <<97, 0, 98>>}
StartPages == {0, 1}
\* Option<u32>: <<>> is None, <<i>> is Some(i)
ParentIdx == {<<>>, <<0>>}

\* ------------------------------------------------------------------ state
VARIABLES
    writer,          \* BBFBuilder.writer: the bytes written to the sink
    current_offset,  \* BBFBuilder.current_offset
    assets,          \* BBFBuilder.assets
    pages,           \* BBFBuilder.pages
    sections,        \* BBFBuilder.sections
    metadata,        \* BBFBuilder.metadata
    string_pool,     \* BBFBuilder.string_pool
    dedupe_map,      \* BBFBuilder.dedupe_map: content hash -> asset index
    string_map,      \* BBFBuilder.string_map: string -> pool offset
    bstate,          \* "open" until finalize consumes the builder
    page_calls,      \* the add_page calls made: arguments and return value
    section_calls,   \* the add_section calls made
    meta_calls,      \* the add_metadata calls made
    input,           \* the bytes handed to a reader
    rd,              \* the result of the buffer reader's BBFReader::new
    srd,             \* the result of the stream reader's BBFReader::new
    acc,             \* the last accessor call on the reader and its result
    inner,           \* BbfBuilder.inner: "Some" builder or "None"
    lock,            \* the Mutex around inner: 0 or the thread holding it
    thr,             \* each thread's position in the wrapper call it makes
    log,             \* the calls that have returned, in order of return
    heap,            \* the Box behind the CBbfBuilder pointer: live or freed
    plan             \* bbfmux: the manifest of cmd_mux, before and after sort

bvars == <<writer, current_offset, assets, pages, sections, metadata,
           string_pool, dedupe_map, string_map, bstate>>
hvars == <<page_calls, section_calls, meta_calls>>
rvars == <<input, rd, srd, acc>>
wvars == <<inner, lock, thr, log, heap>>
pvars == <<plan>>
vars == <<bvars, hvars, rvars, wvars, pvars>>

\* bbfmux has not built a manifest
\* cmd_mux before it starts: no order file read, nothing listed
NoPlan == [pc |-> "none", order_map |-> <<>>, manifest |-> <<>>,
           listed |-> <<>>, file_to_page_idx |-> <<>>, sec_reqs |-> <<>>]

\* the threads that share one BbfBuilder
Threads == 1..MaxThreads

\* a thread that is not inside a call
Idle == [pc |-> "idle", op |-> "none", data |-> <<>>,
         res |-> [kind |-> "none", val |-> 0], after |-> FALSE]

NotOpened ==
    [res |-> "NotOpened", footer |-> <<>>, string_pool |-> <<>>, usize |-> 0]

\* -------------------------------------------------------------- Builder
\* faulty variant of align_padding: a full block of padding at a boundary
align_padding_full_block(offset) == ALIGN - (offset % ALIGN)

\* align_padding: the number of zero bytes written before a new asset
align_padding(offset) == (ALIGN - (offset % ALIGN)) % ALIGN

\* the AssetEntry literal of add_page
new_asset_entry(offset, length, hash, media_type) ==
    [offset |-> offset, length |-> length, decoded_length |-> length,
     xxh3_hash |-> hash, type_ |-> media_type, flags |-> 0]

\* HashMap::insert
map_insert(m, k, v) == [x \in DOMAIN m \cup {k} |-> IF x = k THEN v ELSE m[x]]

\* faulty variant of dedupe_insert: the new asset is not recorded in the map
dedupe_insert_forgotten(m, hash, asset_index) == m

\* self.dedupe_map.insert(hash, asset_index)
dedupe_insert(m, hash, asset_index) == map_insert(m, hash, asset_index)

NumCalls == Len(page_calls) + Len(section_calls) + Len(meta_calls)

\* add_page with the dedup test `hit` and, on a hit, the asset's type tag
\* either kept or set to the media type of the call
add_page_variant(data, media_type, flags, hit, retag) ==
    /\ LET hash == xxh3_64(data)
           padding == align_padding(current_offset)
           offset == current_offset + padding
           asset_index == IF hit THEN dedupe_map[hash] ELSE Len(assets)
       IN /\ IF hit
             THEN /\ assets' = IF retag
                               THEN [assets EXCEPT ![asset_index + 1].type_ =
                                                       media_type]
                               ELSE assets
                  /\ UNCHANGED <<writer, current_offset, dedupe_map>>
             ELSE /\ writer' = write_all(
                                 IF padding > 0
                                 THEN Append(writer, Run(padding, <<>>))
                                 ELSE writer, data)
                  /\ current_offset' = offset + Len(data)
                  /\ assets' = Append(assets,
                         new_asset_entry(offset, Len(data), hash, media_type))
                  /\ dedupe_map' = dedupe_insert(dedupe_map, hash, asset_index)
          /\ pages' = Append(pages,
                             [asset_index |-> asset_index, flags |-> flags])
          /\ page_calls' = Append(page_calls,
                 [data |-> data, media_type |-> media_type, flags |-> flags,
                  ret |-> asset_index])
    /\ UNCHANGED <<sections, metadata, string_pool, string_map,
                   section_calls, meta_calls>>

\* faulty variant of BBFBuilder::add_page: a payload with a known hash is
\* merged only if its bytes were added before
BBFBuilder_add_page_compares_bytes(data, media_type, flags) ==
    add_page_variant(data, media_type, flags,
                     /\ xxh3_64(data) \in DOMAIN dedupe_map
                     /\ \E j \in 1..Len(page_calls) :
                            page_calls[j].data = data,
                     FALSE)

\* faulty variant of BBFBuilder::add_page: a dedup hit sets the type tag of
\* the asset to the media type of the call
BBFBuilder_add_page_retags(data, media_type, flags) ==
    add_page_variant(data, media_type, flags,
                     xxh3_64(data) \in DOMAIN dedupe_map, TRUE)

\* BBFBuilder::add_page on the builder's fields
BBFBuilder_add_page(data, media_type, flags) ==
    /\ LET hash == xxh3_64(data)
           padding == align_padding(current_offset)
           offset == current_offset + padding
           length == Len(data)
           hit == hash \in DOMAIN dedupe_map
           asset_index == IF hit THEN dedupe_map[hash] ELSE Len(assets)
       IN /\ IF hit
             THEN UNCHANGED <<writer, current_offset, assets, dedupe_map>>
             ELSE /\ writer' = write_all(
                                 IF padding > 0
                                 THEN Append(writer, Run(padding, <<>>))
                                 ELSE writer, data)
                  /\ current_offset' = offset + length
                  /\ assets' = Append(assets,
                         new_asset_entry(offset, length, hash, media_type))
                  /\ dedupe_map' = dedupe_insert(dedupe_map, hash, asset_index)
          /\ pages' = Append(pages,
                             [asset_index |-> asset_index, flags |-> flags])
          /\ page_calls' = Append(page_calls,
                 [data |-> data, media_type |-> media_type, flags |-> flags,
                  ret |-> asset_index])
    /\ UNCHANGED <<sections, metadata, string_pool, string_map,
                   section_calls, meta_calls>>

add_page(data, media_type, flags) ==
    /\ bstate = "open"
    /\ NumCalls < MaxCalls
    /\ BBFBuilder_add_page(data, media_type, flags)
    /\ UNCHANGED <<bstate, rvars, plan, wvars>>

\* faulty variant of get_or_add_str: the terminating NUL is not pushed
get_or_add_str_unterminated(pool, map, s) ==
    IF s \in DOMAIN map
    THEN [offset |-> map[s], pool |-> pool, map |-> map]
    ELSE [offset |-> Len(pool),
          pool |-> pool \o s,
          map |-> map_insert(map, s, Len(pool))]

\* get_or_add_str on the pair (string_pool, string_map): the offset returned
\* and the pair afterwards
get_or_add_str(pool, map, s) ==
    IF s \in DOMAIN map
    THEN [offset |-> map[s], pool |-> pool, map |-> map]
    ELSE [offset |-> Len(pool),
          pool |-> pool \o s \o <<0>>,
          map |-> map_insert(map, s, Len(pool))]

\* parent_idx.unwrap_or(0xFFFF_FFFF)
unwrap_parent(parent_idx) ==
    IF parent_idx = <<>> THEN NO_PARENT ELSE U32(parent_idx[1])

add_section(title, start_page, parent_idx) ==
    /\ bstate = "open"
    /\ NumCalls < MaxCalls
    /\ LET t == get_or_add_str(string_pool, string_map, title)
       IN /\ string_pool' = t.pool
          /\ string_map' = t.map
          /\ sections' = Append(sections,
                 [section_title_offset |-> t.offset,
                  section_start_index |-> start_page,
                  parent_section_index |-> unwrap_parent(parent_idx)])
    /\ section_calls' = Append(section_calls,
           [title |-> title, start_page |-> start_page,
            parent_idx |-> parent_idx])
    /\ UNCHANGED <<writer, current_offset, assets, pages, metadata,
                   dedupe_map, bstate, page_calls, meta_calls, rvars, plan,
                   wvars>>

add_metadata(key, value) ==
    /\ bstate = "open"
    /\ NumCalls < MaxCalls
    /\ LET k == get_or_add_str(string_pool, string_map, key)
           v == get_or_add_str(k.pool, k.map, value)
       IN /\ string_pool' = v.pool
          /\ string_map' = v.map
          /\ metadata' = Append(metadata,
                 [key_offset |-> k.offset, val_offset |-> v.offset])
    /\ meta_calls' = Append(meta_calls, [key |-> key, value |-> value])
    /\ UNCHANGED <<writer, current_offset, assets, pages, sections,
                   dedupe_map, bstate, page_calls, section_calls, rvars, plan,
                   wvars>>

\* faulty variant of write_hash: the slice is not counted in the offset
write_hash_uncounted(st, slice) ==
    IF slice = <<>> THEN st
    ELSE [writer |-> write_all(st.writer, slice),
          hashed |-> st.hashed \o slice,
          current_offset |-> st.current_offset]

\* faulty variant of write_hash: the slice is written but not hashed
write_hash_unhashed(st, slice) ==
    IF slice = <<>> THEN st
    ELSE [writer |-> write_all(st.writer, slice),
          hashed |-> st.hashed,
          current_offset |-> st.current_offset + Len(slice)]

\* the write_hash! macro of finalize, on the triple (writer, bytes fed to
\* the hasher, current_offset)
write_hash(st, slice) ==
    IF slice = <<>> THEN st
    ELSE [writer |-> write_all(st.writer, slice),
          hashed |-> st.hashed \o slice,
          current_offset |-> st.current_offset + Len(slice)]

RECURSIVE write_hash_rows(_, _)
\* one write_hash! per table row
write_hash_rows(st, rows) ==
    IF rows = <<>> THEN st
    ELSE write_hash_rows(write_hash(st, Head(rows)), Tail(rows))

\* the footer and the sink contents that finalize produces
finalize_output ==
    LET s0 == [writer |-> writer, hashed |-> <<>>,
               current_offset |-> current_offset]
        s1 == write_hash(s0, string_pool)
        s2 == write_hash_rows(s1,
                  [i \in 1..Len(assets) |-> asset_as_bytes(assets[i])])
        s3 == write_hash_rows(s2,
                  [i \in 1..Len(pages) |-> page_as_bytes(pages[i])])
        s4 == write_hash_rows(s3,
                  [i \in 1..Len(sections) |-> section_as_bytes(sections[i])])
        s5 == write_hash_rows(s4,
                  [i \in 1..Len(metadata) |-> meta_as_bytes(metadata[i])])
        footer ==
            [string_pool_offset |-> U64(s0.current_offset),
             asset_table_offset |-> U64(s1.current_offset),
             asset_count |-> U32(Len(assets)),
             page_table_offset |-> U64(s2.current_offset),
             page_count |-> U32(Len(pages)),
             section_table_offset |-> U64(s3.current_offset),
             section_count |-> U32(Len(sections)),
             meta_table_offset |-> U64(s4.current_offset),
             key_count |-> U32(Len(metadata)),
             extra_offset |-> U64(0),
             index_hash |-> U64(xxh3_64(s5.hashed)),
             magic |-> MAGIC]
    IN [footer |-> footer,
        writer |-> write_all(s5.writer, footer_as_bytes(footer))]

finalize ==
    /\ bstate = "open"
    /\ writer' = finalize_output.writer
    /\ bstate' = "finalized"
    /\ UNCHANGED <<current_offset, assets, pages, sections, metadata,
                   string_pool, dedupe_map, string_map, hvars, rvars, plan,
                   wvars>>

\* ------------------------------------------------- Reader (zero-copy buffer)
\* the little-endian fields of the footer stored in the last 76 bytes
read_footer(data) ==
    LET o == FileLen(data) - FOOTER_SIZE
    IN [string_pool_offset |-> Slice(data, o, 8),
        asset_table_offset |-> Slice(data, o + 8, 8),
        asset_count |-> Slice(data, o + 16, 4),
        page_table_offset |-> Slice(data, o + 20, 8),
        page_count |-> Slice(data, o + 28, 4),
        section_table_offset |-> Slice(data, o + 32, 8),
        section_count |-> Slice(data, o + 40, 4),
        meta_table_offset |-> Slice(data, o + 44, 8),
        key_count |-> Slice(data, o + 52, 4),
        extra_offset |-> Slice(data, o + 56, 8),
        index_hash |-> Slice(data, o + 64, 8),
        magic |-> Slice(data, o + 72, 4)]

\* faulty variant of check_range: the end of the table is not compared with the
\* length of the file
check_range_no_length(total_len, offset, count, elem_size) ==
    LET size == checked_mul(U64From(count), elem_size)
        end == checked_add(offset, size)
    IN IF size = <<>> THEN "TableError"
       ELSE IF end = <<>> THEN "TableError"
       ELSE "Ok"

\* the check_range closure of BBFReader::new
check_range(total_len, offset, count, elem_size) ==
    LET size == checked_mul(U64From(count), elem_size)
        end == checked_add(offset, size)
    IN IF size = <<>> THEN "TableError"
       ELSE IF end = <<>> THEN "TableError"
       ELSE IF Less(U64(total_len), end) THEN "FileTooShort"
       ELSE "Ok"

\* the string-pool test of BBFReader::new
pool_check(total_len, footer) ==
    IF \/ Less(footer.asset_table_offset, footer.string_pool_offset)
       \/ Less(U64(total_len), footer.asset_table_offset)
    THEN "TableError" ELSE "Ok"

RECURSIVE first_error(_)
\* the ? operator over a sequence of results: the first one that is not Ok
first_error(rs) ==
    IF rs = <<>> THEN "Ok"
    ELSE IF Head(rs) # "Ok" THEN Head(rs) ELSE first_error(Tail(rs))

Failed(e) == [res |-> e, footer |-> <<>>, string_pool |-> <<>>, usize |-> 0]

\* faulty variant of magic_ok: only the first three bytes are compared
magic_ok_prefix(m) == SubSeq(m, 1, 3) = SubSeq(MAGIC, 1, 3)

\* &header.magic == b"BBF1", &footer.magic == b"BBF1"
magic_ok(m) == m = MAGIC

\* BBFReader::new of the buffer reader, in a build whose usize has
\* usize_bytes bytes
BBFReader_new(data, usize_bytes) ==
    LET total_len == FileLen(data)
    IN IF total_len < HEADER_SIZE + FOOTER_SIZE THEN Failed("FileTooShort")
       ELSE IF ~magic_ok(Slice(data, 0, 4)) THEN Failed("InvalidMagic")
       ELSE LET footer == read_footer(data)
                checks == <<
                    pool_check(total_len, footer),
                    check_range(total_len, footer.asset_table_offset,
                                footer.asset_count, ASSET_SIZE),
                    check_range(total_len, footer.page_table_offset,
                                footer.page_count, PAGE_SIZE),
                    check_range(total_len, footer.section_table_offset,
                                footer.section_count, SECTION_SIZE),
                    check_range(total_len, footer.meta_table_offset,
                                footer.key_count, META_SIZE)>>
            IN IF ~magic_ok(footer.magic) THEN Failed("InvalidMagic")
               ELSE IF first_error(checks) # "Ok"
               THEN Failed(first_error(checks))
               ELSE [res |-> "Ok", footer |-> footer, string_pool |-> <<>>,
                     usize |-> usize_bytes]

Panic == [kind |-> "panic", rows |-> <<>>, bytes |-> <<>>]

\* the pointer widths of the targets the crate is built for, in bytes
\* (wasm32 and 64-bit hosts)
UsizeBytes == {4, 8}

\* v as usize: the low w bytes of the field, zero-extended to 8 bytes
as_usize(f, w) == [i \in 1..8 |-> IF i <= w /\ i <= Len(f) THEN f[i] ELSE 0]

\* a 9-byte sum or product does not fit in w bytes
Wide(r, w) == \E i \in (w + 1)..Len(r) : r[i] # 0

\* usize::checked_add: <<>> stands for None
usize_checked_add(a, b, w) ==
    LET r == AddCarry(a, b, 0)
    IN IF Wide(r, w) THEN <<>> ELSE SubSeq(r, 1, 8)

\* usize multiplication by a small factor k: <<>> stands for an overflow,
\* which new's check_range excludes for every table of a constructed reader
usize_mul(a, k, w) ==
    LET r == MulCarry(a, k, 0)
    IN IF Wide(r, w) THEN <<>> ELSE SubSeq(r, 1, 8)

\* &buf[start..end] of a buffer of total_len bytes is in range
InRange(total_len, start, end) ==
    /\ end # <<>>
    /\ Leq(start, end)
    /\ Leq(end, U64(total_len))

\* get_table_slice: the rows as raw byte strings, or a panic of the slicing
get_table_slice(data, offset, count, elem_size, w) ==
    LET start == as_usize(offset, w)
        len == usize_mul(as_usize(count, w), elem_size, w)
        end == IF len = <<>> THEN <<>> ELSE usize_checked_add(start, len, w)
    IN IF ~InRange(FileLen(data), start, end) THEN Panic
       ELSE [kind |-> "rows",
             rows |-> [i \in 1..(Val(len) \div elem_size) |->
                          Slice(data, Val(start) + (i - 1) * elem_size,
                                elem_size)],
             bytes |-> <<>>]

reader_assets(data, self) ==
    get_table_slice(data, self.footer.asset_table_offset, self.footer.asset_count,
                    ASSET_SIZE, self.usize)

reader_pages(data, self) ==
    get_table_slice(data, self.footer.page_table_offset, self.footer.page_count,
                    PAGE_SIZE, self.usize)

reader_sections(data, self) ==
    get_table_slice(data, self.footer.section_table_offset, self.footer.section_count,
                    SECTION_SIZE, self.usize)

reader_metadata(data, self) ==
    get_table_slice(data, self.footer.meta_table_offset, self.footer.key_count,
                    META_SIZE, self.usize)

\* the typed fields of raw rows
AssetRow(r) ==
    [offset |-> SubSeq(r, 1, 8), length |-> SubSeq(r, 9, 16),
     decoded_length |-> SubSeq(r, 17, 24), xxh3_hash |-> SubSeq(r, 25, 32),
     type_ |-> r[33], flags |-> r[34]]

PageRow(r) == [asset_index |-> SubSeq(r, 1, 4), flags |-> SubSeq(r, 5, 8)]

SectionRow(r) ==
    [section_title_offset |-> SubSeq(r, 1, 4),
     section_start_index |-> SubSeq(r, 5, 8),
     parent_section_index |-> SubSeq(r, 9, 12)]

MetaRow(r) == [key_offset |-> SubSeq(r, 1, 4), val_offset |-> SubSeq(r, 5, 8)]

\* faulty variant of nul_position: without a NUL the string is taken to be empty
nul_position_or_zero(slice) ==
    IF \E i \in 1..Len(slice) : slice[i] = 0
    THEN (CHOOSE i \in 1..Len(slice) :
              slice[i] = 0 /\ \A j \in 1..(i - 1) : slice[j] # 0) - 1
    ELSE 0

\* slice.iter().position(|&c| c == 0).unwrap_or(slice.len())
nul_position(slice) ==
    IF \E i \in 1..Len(slice) : slice[i] = 0
    THEN (CHOOSE i \in 1..Len(slice) :
              slice[i] = 0 /\ \A j \in 1..(i - 1) : slice[j] # 0) - 1
    ELSE Len(slice)

Cont(b) == b >= 128 /\ b <= 191

RECURSIVE from_utf8_ok(_)
\* std::str::from_utf8(bs).is_ok(): bs is well-formed UTF-8
from_utf8_ok(bs) ==
    IF bs = <<>> THEN TRUE
    ELSE LET b == bs[1]
             n == Len(bs)
         IN IF b < 128 THEN from_utf8_ok(Tail(bs))
            ELSE IF b >= 194 /\ b <= 223
            THEN n >= 2 /\ Cont(bs[2]) /\ from_utf8_ok(SubSeq(bs, 3, n))
            ELSE IF b >= 224 /\ b <= 239
            THEN /\ n >= 3
                 /\ Cont(bs[2])
                 /\ Cont(bs[3])
                 /\ (b = 224 => bs[2] >= 160)
                 /\ (b = 237 => bs[2] <= 159)
                 /\ from_utf8_ok(SubSeq(bs, 4, n))
            ELSE IF b >= 240 /\ b <= 244
            THEN /\ n >= 4
                 /\ Cont(bs[2])
                 /\ Cont(bs[3])
                 /\ Cont(bs[4])
                 /\ (b = 240 => bs[2] >= 144)
                 /\ (b = 244 => bs[2] <= 143)
                 /\ from_utf8_ok(SubSeq(bs, 5, n))
            ELSE FALSE

None == [kind |-> "None", rows |-> <<>>, bytes |-> <<>>]
Some(bs) == [kind |-> "Some", rows |-> <<>>, bytes |-> bs]
Err(e) == [kind |-> e, rows |-> <<>>, bytes |-> <<>>]
Ok(bs) == [kind |-> "Ok", rows |-> <<>>, bytes |-> bs]

NoCall == [op |-> "none", arg |-> <<>>, out |-> None]

\* get_string of the buffer reader; offset is a u32 field
get_string(data, self, offset) ==
    IF ~InRange(FileLen(data),
                as_usize(self.footer.string_pool_offset, self.usize),
                as_usize(self.footer.asset_table_offset, self.usize))
    THEN Panic
    ELSE LET pool_start ==
                 Val(as_usize(self.footer.string_pool_offset, self.usize))
             pool_len ==
                 Val(as_usize(self.footer.asset_table_offset, self.usize))
                 - pool_start
         IN IF Leq(U32(pool_len), offset) THEN None
            ELSE LET slice_from_offset ==
                         Slice(data, pool_start + Val(offset),
                               pool_len - Val(offset))
                     end == nul_position(slice_from_offset)
                     s == SubSeq(slice_from_offset, 1, end)
                 IN IF from_utf8_ok(s) THEN Some(s) ELSE None

\* get_asset of the buffer reader; asset_index is a u32 field
get_asset(data, self, asset_index) ==
    LET assets_ == reader_assets(data, self)
    IN IF assets_.kind = "panic" THEN Panic
       ELSE IF Leq(U32(Len(assets_.rows)), asset_index)
       THEN Err("OutOfBounds")
       ELSE LET asset == AssetRow(assets_.rows[Val(asset_index) + 1])
                offset == as_usize(asset.offset, self.usize)
                length == as_usize(asset.length, self.usize)
                end == usize_checked_add(offset, length, self.usize)
            IN IF end = <<>> THEN Err("OutOfBounds")
               ELSE IF Less(U64(FileLen(data)), end) THEN Err("FileTooShort")
               ELSE Ok(Slice(data, Val(offset), Val(length)))

\* ----------------------------------------------- Reader (owned-copy stream)
\* u64 subtraction in a release build: the difference modulo 2^64
wrapping_sub(a, b) ==
    SubSeq(AddCarry(a, [i \in 1..Len(b) |-> 255 - b[i]], 1), 1, Len(a))

\* seek(Start(off)), vec![0; n], read_exact of n bytes (off and n are 64-bit
\* fields): read_exact fails unless n = 0 or [off, off + n) is in the file
read_fails(total_len, off, n) ==
    /\ n # U64(0)
    /\ LET end == AddCarry(off, n, 0)
       IN end[9] = 1 \/ Less(U64(total_len), SubSeq(end, 1, 8))

\* the ways the step can fail: a File rejects a seek beyond i64::MAX, the
\* allocation of more than isize::MAX bytes panics, a large allocation may
\* abort the process, read_exact reports UnexpectedEof
read_step_failures(total_len, off, n, w) ==
    (IF off[8] >= 128 THEN {"Io"} ELSE {})
    \cup (IF as_usize(n, w)[w] >= 128 THEN {"Panic"}
          ELSE IF ~Small(as_usize(n, w)) THEN {"Abort"} ELSE {})
    \cup (IF read_fails(total_len, off, as_usize(n, w)) THEN {"Io"} ELSE {})

read_step_passes(total_len, off, n, w) ==
    as_usize(n, w)[w] < 128 /\ ~read_fails(total_len, off, as_usize(n, w))

RECURSIVE stream_reads(_, _, _)
\* the possible results of a sequence of read steps
stream_reads(total_len, reads, w) ==
    IF reads = <<>> THEN {"Ok"}
    ELSE LET r == Head(reads)
         IN read_step_failures(total_len, r.off, r.n, w)
            \cup (IF read_step_passes(total_len, r.off, r.n, w)
                  THEN stream_reads(total_len, Tail(reads), w) ELSE {})

Bytes64(count, elem_size) == SubSeq(MulCarry(U64From(count), elem_size, 0), 1, 8)

\* BBFReader::new of the stream reader in a build whose usize has w bytes:
\* the set of results it can produce.  asset_table_offset -
\* string_pool_offset panics on underflow in a build with overflow checks
\* and wraps otherwise.
stream_BBFReader_new(data, w) ==
    LET total_len == FileLen(data)
    IN IF total_len < HEADER_SIZE THEN {Failed("Io")}
       ELSE IF ~magic_ok(Slice(data, 0, 4)) THEN {Failed("InvalidMagic")}
       ELSE IF total_len < HEADER_SIZE + FOOTER_SIZE
       THEN {Failed("FileTooShort")}
       ELSE LET footer == read_footer(data)
                underflow == Less(footer.asset_table_offset,
                                  footer.string_pool_offset)
                str_pool_len == wrapping_sub(footer.asset_table_offset,
                                             footer.string_pool_offset)
                reads == <<
                    [off |-> footer.string_pool_offset, n |-> str_pool_len],
                    [off |-> footer.asset_table_offset,
                     n |-> Bytes64(footer.asset_count, ASSET_SIZE)],
                    [off |-> footer.page_table_offset,
                     n |-> Bytes64(footer.page_count, PAGE_SIZE)],
                    [off |-> footer.section_table_offset,
                     n |-> Bytes64(footer.section_count, SECTION_SIZE)],
                    [off |-> footer.meta_table_offset,
                     n |-> Bytes64(footer.key_count, META_SIZE)]>>
            IN IF ~magic_ok(footer.magic) THEN {Failed("InvalidMagic")}
               ELSE (IF underflow THEN {Failed("Panic")} ELSE {})
                    \cup {IF o = "Ok"
                          THEN [res |-> "Ok", footer |-> footer,
                                string_pool |->
                                    Slice(data,
                                          Val(footer.string_pool_offset),
                                          Val(as_usize(str_pool_len, w))),
                                usize |-> w]
                          ELSE Failed(o) :
                            o \in stream_reads(total_len, reads, w)}

\* get_string of the stream reader, on its owned copy of the pool
stream_get_string(pool, offset) ==
    IF Leq(U32(Len(pool)), offset) THEN None
    ELSE LET slice == SubSeq(pool, Val(offset) + 1, Len(pool))
             end == nul_position(slice)
             s == SubSeq(slice, 1, end)
         IN IF from_utf8_ok(s) THEN Some(s) ELSE None

\* ------------------------------------------ build, finalize, read back
Init ==
    /\ writer = write_all(<<>>, header_as_bytes)
    /\ current_offset = HEADER_SIZE
    /\ assets = <<>>
    /\ pages = <<>>
    /\ sections = <<>>
    /\ metadata = <<>>
    /\ string_pool = <<>>
    /\ dedupe_map = <<>>
    /\ string_map = <<>>
    /\ bstate = "open"
    /\ page_calls = <<>>
    /\ section_calls = <<>>
    /\ meta_calls = <<>>
    /\ input = <<>>
    /\ rd = NotOpened
    /\ srd = NotOpened
    /\ acc = NoCall
    /\ inner = "Some"
    /\ lock = 0
    /\ thr = [t \in Threads |-> Idle]
    /\ log = <<>>
    /\ heap = "live"
    /\ plan = NoPlan

\* BBFReader::new on the bytes the builder left in the sink
read_back ==
    /\ bstate = "finalized"
    /\ rd = NotOpened
    /\ input' = writer
    /\ \E usize_bytes \in UsizeBytes :
           rd' = BBFReader_new(writer, usize_bytes)
    /\ UNCHANGED <<bvars, hvars, wvars, plan, srd, acc>>

Next ==
    \/ \E data \in Payloads, media_type \in MediaTypes, flags \in Flags :
           add_page(data, media_type, flags)
    \/ \E title \in Strings, start_page \in StartPages,
          parent_idx \in ParentIdx :
           add_section(title, start_page, parent_idx)
    \/ \E key \in Strings, value \in Strings : add_metadata(key, value)
    \/ finalize
    \/ read_back

Spec == Init /\ [][Next]_vars

\* ------------------------------------------------- claims on the builder
Last(q) == q[Len(q)]

\* the reader's view of the file that was read back
Footer == rd.footer
PageRows == reader_pages(input, rd).rows
SectionRows == reader_sections(input, rd).rows
MetaRows == reader_metadata(input, rd).rows
ReadBack == rd # NotOpened

\* C1: after any add_page calls and finalize, BBFReader::new succeeds on the
\* produced bytes, page_count is the number of add_page calls, page i
\* carries the flags of call i and get_asset of its asset index returns the
\* bytes of call i.
C1_PageRoundTrip ==
    ReadBack =>
        /\ rd.res = "Ok"
        /\ Footer.page_count = U32(Len(page_calls))
        /\ Len(PageRows) = Len(page_calls)
        /\ \A i \in 1..Len(page_calls) :
               /\ PageRow(PageRows[i]).flags = U32(page_calls[i].flags)
               /\ get_asset(input, rd, PageRow(PageRows[i]).asset_index)
                      = Ok(page_calls[i].data)

\* C2: an add_page with the bytes of an earlier add_page returns the earlier
\* call's asset index, appends exactly one PageEntry and leaves the asset
\* table, the write offset and the sink untouched.
C2_DedupIdempotence ==
    [][(/\ Len(page_calls') = Len(page_calls) + 1
        /\ \E j \in 1..Len(page_calls) :
               page_calls[j].data = Last(page_calls').data)
       => (/\ \A j \in 1..Len(page_calls) :
                  page_calls[j].data = Last(page_calls').data
                      => Last(page_calls').ret = page_calls[j].ret
           /\ pages' = Append(pages,
                  [asset_index |-> Last(page_calls').ret,
                   flags |-> Last(page_calls').flags])
           /\ assets' = assets
           /\ current_offset' = current_offset
           /\ writer' = writer)]_vars

\* C2 witness: the same bytes were added twice
C2_Witness ==
    \E j, k \in 1..Len(page_calls) :
        j < k /\ page_calls[j].data = page_calls[k].data

DistinctPayloads == {page_calls[i].data : i \in 1..Len(page_calls)}

\* C3: the number of AssetEntry rows, and the asset_count that finalize
\* writes, is the number of distinct byte sequences passed to add_page.
C3_OneAssetPerDistinctPayload ==
    /\ Len(assets) = Cardinality(DistinctPayloads)
    /\ ReadBack /\ rd.res = "Ok"
           => Footer.asset_count = U32(Cardinality(DistinctPayloads))

\* the strings handed to the builder, with the pool offset stored for each
StringRefs ==
    {<<section_calls[i].title,
       SectionRow(SectionRows[i]).section_title_offset>> :
         i \in 1..Len(section_calls)}
    \cup {<<meta_calls[i].key, MetaRow(MetaRows[i]).key_offset>> :
              i \in 1..Len(meta_calls)}
    \cup {<<meta_calls[i].value, MetaRow(MetaRows[i]).val_offset>> :
              i \in 1..Len(meta_calls)}

HasNul(s) == \E i \in 1..Len(s) : s[i] = 0

PoolStart == Val(Footer.string_pool_offset)
PoolLen == Val(Footer.asset_table_offset) - PoolStart

RECURSIVE SumLen(_)
\* the pool bytes needed for a set of strings, each with its terminator
SumLen(S) ==
    IF S = {} THEN 0
    ELSE LET s == CHOOSE x \in S : TRUE IN Len(s) + 1 + SumLen(S \ {s})

RowsMatchCalls ==
    /\ rd.res = "Ok"
    /\ Len(SectionRows) = Len(section_calls)
    /\ Len(MetaRows) = Len(meta_calls)

\* byte-identical strings share one pool offset, and the pool holds each
\* distinct string once, NUL-terminated
PoolInterned ==
    /\ \A r1, r2 \in StringRefs : r1[1] = r2[1] => r1[2] = r2[2]
    /\ \A r \in StringRefs :
           /\ Val(r[2]) + Len(r[1]) + 1 <= PoolLen
           /\ Slice(input, PoolStart + Val(r[2]), Len(r[1]) + 1)
                  = r[1] \o <<0>>
    /\ \A r1, r2 \in StringRefs :
           r1[1] # r2[1] =>
               \/ Val(r1[2]) + Len(r1[1]) + 1 <= Val(r2[2])
               \/ Val(r2[2]) + Len(r2[1]) + 1 <= Val(r1[2])
    /\ PoolLen = SumLen({r[1] : r \in StringRefs})

\* C4 as claimed: every title, key and value, whatever string it is, is
\* returned exactly by get_string of its stored offset; identical strings
\* share an offset and the pool holds each distinct string once.
C4_StringRoundTrip_AnyString ==
    ReadBack =>
        /\ RowsMatchCalls
        /\ \A r \in StringRefs : get_string(input, rd, r[2]) = Some(r[1])
        /\ PoolInterned

\* C4 as amended: the exact round trip holds for every string without a NUL
\* character; a string with a NUL character reads back cut at its first NUL.
C4_StringRoundTrip ==
    ReadBack =>
        /\ RowsMatchCalls
        /\ \A r \in StringRefs :
               get_string(input, rd, r[2]) =
                   Some(SubSeq(r[1], 1, nul_position(r[1])))
        /\ \A r \in StringRefs :
               ~HasNul(r[1]) => get_string(input, rd, r[2]) = Some(r[1])
        /\ PoolInterned

\* C4 witness: a file read back in which one string was passed twice and
\* another, different, string was passed as well
C4_Witness ==
    /\ ReadBack
    /\ Len(meta_calls) > 0
    /\ Len(section_calls) > 0
    /\ \E i \in 1..Len(meta_calls) :
           /\ meta_calls[i].key = section_calls[1].title
           /\ meta_calls[i].value # meta_calls[i].key
           /\ ~HasNul(meta_calls[i].key)
           /\ ~HasNul(meta_calls[i].value)

\* ------------------------------------------- readers on arbitrary inputs
HUGE == <<255, 255, 255, 255, 255, 255, 255, 255>>
U32MAX == <<255, 255, 255, 255>>
\* "BBF2"
BadMagic == <<66, 66, 70, 50>>

\* raw bytes of an asset row with the given offset and length fields
RawAsset(offset, length) ==
    offset \o length \o length \o U64(0) \o <<Png, 0>> \o Zeros(6) \o Zeros(24)

\* pool "a\0", "e-acute\0", 0xFF "\0", "b" without terminator at [19, 27)
CraftPool == <<97, 0, 195, 169, 0, 255, 0, 98>>

\* 2^32 + 19: beyond any buffer of a 32-bit target, 19 once cut to 32 bits
ABOVE_U32 == <<19, 0, 0, 0, 1, 0, 0, 0>>

\* four asset rows at [27, 283): in range, past the end of the file,
\* offset + length beyond 2^64, and an offset above 2^32; two page rows at
\* [283, 299); one section row at [299, 311); one metadata row at [311, 319)
CraftBody ==
    CraftPool
    \o RawAsset(U64(19), U64(4)) \o RawAsset(U64(393), U64(5))
    \o RawAsset(HUGE, U64(2)) \o RawAsset(ABOVE_U32, U64(4))
    \o U32(0) \o U32(0) \o U32(2) \o U32(1)
    \o U32(2) \o U32(0) \o NO_PARENT
    \o U32(0) \o U32(7)

CraftLen == HEADER_SIZE + Len(CraftBody) + FOOTER_SIZE

Craft(hm, fm, sp, at, ac, page, sec, meta) ==
    <<Run(0, hm \o SubSeq(header_as_bytes, 5, HEADER_SIZE)),
      Run(0, CraftBody),
      Run(0, footer_as_bytes(
          [string_pool_offset |-> sp, asset_table_offset |-> at,
           asset_count |-> ac,
           page_table_offset |-> page[1], page_count |-> page[2],
           section_table_offset |-> sec[1], section_count |-> sec[2],
           meta_table_offset |-> meta[1], key_count |-> meta[2],
           extra_offset |-> U64(0), index_hash |-> U64(0), magic |-> fm]))>>

Magics == {MAGIC, BadMagic}
PoolOffsets == {U64(19), U64(27), U64(40)}
AssetOffsets == {U64(19), U64(27), U64(CraftLen), U64(CraftLen + 1)}
AssetCounts == {U32(0), U32(4), U32MAX}
PageTables == {<<U64(283), U32(2)>>, <<U64(CraftLen - 8), U32(1)>>,
               <<U64(283), U32MAX>>, <<HUGE, U32(1)>>}
SectionTables == {<<U64(299), U32(1)>>, <<U64(CraftLen - 12), U32(1)>>,
                  <<U64(CraftLen - 11), U32(1)>>}
MetaTables == {<<U64(311), U32(1)>>, <<U64(CraftLen), U32(0)>>,
               <<U64(CraftLen + 1), U32(0)>>}

CraftedFiles ==
    {Craft(hm, fm, sp, at, ac, page, sec, meta) :
        hm \in Magics, fm \in Magics, sp \in PoolOffsets, at \in AssetOffsets,
        ac \in AssetCounts, page \in PageTables, sec \in SectionTables,
        meta \in MetaTables}

\* a header directly followed by a footer, all tables empty
MinimalFile ==
    <<Run(0, header_as_bytes),
      Run(0, footer_as_bytes(
          [string_pool_offset |-> U64(19), asset_table_offset |-> U64(19),
           asset_count |-> U32(0),
           page_table_offset |-> U64(19), page_count |-> U32(0),
           section_table_offset |-> U64(19), section_count |-> U32(0),
           meta_table_offset |-> U64(19), key_count |-> U32(0),
           extra_offset |-> U64(0), index_hash |-> U64(0),
           magic |-> MAGIC]))>>

\* inputs shorter than header + footer, with a good and with a wrong magic
ShortLens == {0, 3, 18, 19, 94}
ShortFiles ==
    {<<Run(0, SubSeq(hm \o Zeros(HEADER_SIZE + FOOTER_SIZE), 1, n))>> :
        hm \in Magics, n \in ShortLens}

Inputs == CraftedFiles \cup ShortFiles \cup {MinimalFile}

StringOffsets == {U32(0), U32(2), U32(5), U32(7), U32(8), U32MAX}
AssetIndexes == {U32(0), U32(1), U32(2), U32(3), U32(4), U32MAX}

InitReader ==
    /\ writer = <<>>
    /\ current_offset = 0
    /\ assets = <<>>
    /\ pages = <<>>
    /\ sections = <<>>
    /\ metadata = <<>>
    /\ string_pool = <<>>
    /\ dedupe_map = <<>>
    /\ string_map = <<>>
    /\ bstate = "none"
    /\ page_calls = <<>>
    /\ section_calls = <<>>
    /\ meta_calls = <<>>
    /\ input \in Inputs
    /\ rd = NotOpened
    /\ srd = NotOpened
    /\ acc = NoCall
    /\ inner = "None"
    /\ lock = 0
    /\ thr = [t \in Threads |-> Idle]
    /\ log = <<>>
    /\ heap = "none"
    /\ plan = NoPlan

\* BBFReader::new(&data) of the buffer reader
open_buffer ==
    /\ rd = NotOpened
    /\ \E usize_bytes \in UsizeBytes :
           rd' = BBFReader_new(input, usize_bytes)
    /\ UNCHANGED <<bvars, hvars, wvars, plan, input, srd, acc>>

\* BBFReader::new(reader) of the stream reader
open_stream ==
    /\ srd = NotOpened
    /\ \E usize_bytes \in UsizeBytes :
           srd' \in stream_BBFReader_new(input, usize_bytes)
    /\ UNCHANGED <<bvars, hvars, wvars, plan, input, rd, acc>>

Call(op, arg, out) ==
    /\ acc' = [op |-> op, arg |-> arg, out |-> out]
    /\ UNCHANGED <<bvars, hvars, wvars, plan, input, rd, srd>>

call_assets ==
    rd.res = "Ok" /\ Call("assets", <<>>, reader_assets(input, rd))

call_pages ==
    rd.res = "Ok" /\ Call("pages", <<>>, reader_pages(input, rd))

call_sections ==
    rd.res = "Ok" /\ Call("sections", <<>>, reader_sections(input, rd))

call_metadata ==
    rd.res = "Ok" /\ Call("metadata", <<>>, reader_metadata(input, rd))

call_get_string(offset) ==
    rd.res = "Ok"
    /\ Call("get_string", offset, get_string(input, rd, offset))

call_get_asset(asset_index) ==
    rd.res = "Ok"
    /\ Call("get_asset", asset_index,
            get_asset(input, rd, asset_index))

call_stream_get_string(offset) ==
    srd.res = "Ok"
    /\ Call("stream_get_string", offset,
            stream_get_string(srd.string_pool, offset))

\* BbfReader::get_page of the binding wrapper: indexing pages() panics
\* for an index that is not below its length
BbfReader_get_page(data, self, page_index) ==
    LET pages_ == reader_pages(data, self)
    IN IF pages_.kind = "panic" THEN Panic
       ELSE IF Leq(U32(Len(pages_.rows)), page_index) THEN Panic
       ELSE LET r == get_asset(data, self,
                         PageRow(pages_.rows[Val(page_index) + 1]).asset_index)
            IN IF r.kind \in {"Ok", "panic"} THEN r ELSE Err("Parse")

\* bbf_reader_get_page on non-null pointers: Ok(bytes) stands for writing
\* *out_ptr and *out_len and returning 0, Err("-1") for returning -1 with
\* the output parameters untouched; a panic is caught and gives -1
bbf_reader_get_page(data, self, page_index) ==
    LET pages_ == reader_pages(data, self)
    IN IF pages_.kind = "panic" THEN Err("-1")
       ELSE IF Leq(U32(Len(pages_.rows)), page_index) THEN Err("-1")
       ELSE LET r == get_asset(data, self,
                         PageRow(pages_.rows[Val(page_index) + 1]).asset_index)
            IN IF r.kind = "Ok" THEN r ELSE Err("-1")

PageIndexes == {U32(0), U32(1), U32(2), U32MAX}

call_get_page(page_index) ==
    rd.res = "Ok"
    /\ Call("get_page", page_index,
            BbfReader_get_page(input, rd, page_index))

call_ffi_get_page(page_index) ==
    rd.res = "Ok"
    /\ Call("ffi_get_page", page_index,
            bbf_reader_get_page(input, rd, page_index))

NextReader ==
    \/ open_buffer
    \/ open_stream
    \/ call_assets
    \/ call_pages
    \/ call_sections
    \/ call_metadata
    \/ \E offset \in StringOffsets : call_get_string(offset)
    \/ \E asset_index \in AssetIndexes : call_get_asset(asset_index)
    \/ \E offset \in StringOffsets : call_stream_get_string(offset)

SpecReader == InitReader /\ [][NextReader]_vars

\* ------------------------------------------------- claims on the readers
InputLen == FileLen(input)
TooShort == InputLen < HEADER_SIZE + FOOTER_SIZE
HeadMagic == Slice(input, 0, 4)
TailMagic == Slice(input, InputLen - 4, 4)
InFooter == read_footer(input)

\* offset + count * row_size as a 65-bit sum: 8 bytes and the carry
TableEnd(offset, count, row_size) ==
    AddCarry(offset, SubSeq(MulCarry(U64From(count), row_size, 0), 1, 8), 0)

\* offset + count * row_size overflows 64 bits or exceeds the file length
TableCorrupt(offset, count, row_size) ==
    LET e == TableEnd(offset, count, row_size)
    IN e[9] = 1 \/ Less(U64(InputLen), SubSeq(e, 1, 8))

SomeTableCorrupt ==
    \/ TableCorrupt(InFooter.asset_table_offset, InFooter.asset_count,
                    ASSET_SIZE)
    \/ TableCorrupt(InFooter.page_table_offset, InFooter.page_count,
                    PAGE_SIZE)
    \/ TableCorrupt(InFooter.section_table_offset, InFooter.section_count,
                    SECTION_SIZE)
    \/ TableCorrupt(InFooter.meta_table_offset, InFooter.key_count, META_SIZE)

\* C5: with valid magics and at least one table whose offset + count *
\* row_size overflows or exceeds the file length, new of the buffer reader
\* and new of the stream reader both return TableError or FileTooShort.
C5_CorruptTablesRejected ==
    (~TooShort /\ HeadMagic = MAGIC /\ TailMagic = MAGIC /\ SomeTableCorrupt)
        => /\ rd # NotOpened => rd.res \in {"TableError", "FileTooShort"}
           /\ srd # NotOpened => srd.res \in {"TableError", "FileTooShort"}

\* C6: an input shorter than header + footer yields FileTooShort from both
\* readers, whatever its bytes are.
C6_ShortInputIsFileTooShort ==
    TooShort
        => /\ rd # NotOpened => rd.res = "FileTooShort"
           /\ srd # NotOpened => srd.res = "FileTooShort"

\* C7: new returns Ok only if the first and the last 4 bytes are the magic,
\* and on an input of at least header + footer bytes a wrong header or
\* footer magic yields InvalidMagic whatever the other fields are.
C7_MagicChecked ==
    /\ rd.res = "Ok" => HeadMagic = MAGIC /\ TailMagic = MAGIC
    /\ srd.res = "Ok" => HeadMagic = MAGIC /\ TailMagic = MAGIC
    /\ (~TooShort /\ (HeadMagic # MAGIC \/ TailMagic # MAGIC))
           => /\ rd # NotOpened => rd.res = "InvalidMagic"
              /\ srd # NotOpened => srd.res = "InvalidMagic"

\* C7 witness: both readers have refused a long enough input whose header
\* magic is right and whose footer magic is wrong
C7_Witness ==
    /\ ~TooShort
    /\ HeadMagic = MAGIC
    /\ TailMagic # MAGIC
    /\ rd.res = "InvalidMagic"
    /\ srd.res = "InvalidMagic"

TableOps == {"assets", "pages", "sections", "metadata"}

TableOf(op) ==
    IF op = "assets"
    THEN [off |-> rd.footer.asset_table_offset,
          count |-> rd.footer.asset_count, size |-> ASSET_SIZE]
    ELSE IF op = "pages"
    THEN [off |-> rd.footer.page_table_offset,
          count |-> rd.footer.page_count, size |-> PAGE_SIZE]
    ELSE IF op = "sections"
    THEN [off |-> rd.footer.section_table_offset,
          count |-> rd.footer.section_count, size |-> SECTION_SIZE]
    ELSE [off |-> rd.footer.meta_table_offset,
          count |-> rd.footer.key_count, size |-> META_SIZE]

NoOutside(bs) == \A k \in 1..Len(bs) : bs[k] # OUTSIDE

\* C8: on every buffer that new accepted, each table accessor returns
\* exactly count rows, row i being the bytes at table_offset + i * row_size,
\* and no accessor, get_string included, reads outside the buffer or panics.
C8_AccessorsInBounds ==
    /\ acc.op \in TableOps =>
           LET t == TableOf(acc.op)
           IN /\ acc.out.kind = "rows"
              /\ Small(t.count)
              /\ Len(acc.out.rows) = Val(t.count)
              /\ \A i \in 1..Len(acc.out.rows) :
                     /\ Val(t.off) + i * t.size <= InputLen
                     /\ NoOutside(acc.out.rows[i])
                     /\ acc.out.rows[i] =
                            [k \in 1..t.size |->
                                ByteAt(input,
                                       Val(t.off) + (i - 1) * t.size + k - 1)]
    /\ acc.op \in {"get_string", "get_asset"} =>
           /\ acc.out.kind # "panic"
           /\ NoOutside(acc.out.bytes)

\* C8 witness: a table accessor returned a row that ends exactly at the end
\* of the input, inside the footer, as no builder lays a file out
C8_Witness ==
    /\ acc.op = "sections"
    /\ Len(acc.out.rows) = 1
    /\ Val(rd.footer.section_table_offset) + SECTION_SIZE = InputLen

\* the asset row that get_asset(index) looks at, read from the input
AssetRowAt(index) ==
    AssetRow(Slice(input,
                   Val(rd.footer.asset_table_offset) + index * ASSET_SIZE,
                   ASSET_SIZE))

AssetEnd(row) == AddCarry(row.offset, row.length, 0)

\* C9 as claimed: OutOfBounds if index >= asset_count; otherwise
\* FileTooShort if offset + length overflows or exceeds the file length;
\* otherwise the bytes [offset, offset + length).
C9_GetAsset_AsClaimed ==
    acc.op = "get_asset" =>
        IF ~Less(acc.arg, rd.footer.asset_count)
        THEN acc.out = Err("OutOfBounds")
        ELSE LET row == AssetRowAt(Val(acc.arg))
                 e == AssetEnd(row)
             IN IF e[9] = 1 \/ Less(U64(InputLen), SubSeq(e, 1, 8))
                THEN acc.out = Err("FileTooShort")
                ELSE acc.out = Ok([k \in 1..Val(row.length) |->
                                     ByteAt(input, Val(row.offset) + k - 1)])

\* the pool region [string_pool_offset, asset_table_offset) of the input
InPool ==
    Slice(input, Val(InFooter.string_pool_offset),
          Val(InFooter.asset_table_offset) - Val(InFooter.string_pool_offset))

\* the pool bytes from offset o up to the first NUL or the end of the pool
Selected(pool, o) ==
    LET e == CHOOSE e \in o..Len(pool) :
                 /\ \A k \in (o + 1)..e : pool[k] # 0
                 /\ e = Len(pool) \/ pool[e + 1] = 0
    IN SubSeq(pool, o + 1, e)

\* C10: get_string (both readers) returns None when offset >= pool length
\* or the selected bytes are not UTF-8, and otherwise the pool bytes from
\* offset up to the first NUL or the end of the pool; it never panics.
C10_GetString ==
    acc.op \in {"get_string", "stream_get_string"} =>
        IF ~Less(acc.arg, U32(Len(InPool)))
        THEN acc.out = None
        ELSE IF from_utf8_ok(Selected(InPool, Val(acc.arg)))
        THEN acc.out = Some(Selected(InPool, Val(acc.arg)))
        ELSE acc.out = None

\* C10 witness: get_string returned a string that runs to the end of the
\* pool without a NUL, and is not empty
C10_Witness ==
    /\ acc.op = "get_string"
    /\ acc.out.kind = "Some"
    /\ Len(acc.out.bytes) > 0
    /\ Val(acc.arg) + Len(acc.out.bytes) = Len(InPool)

\* ------------------------------------------------------- bbfmux verify
\* usize addition: with overflow checks an overflow panics (<<>>), without
\* them the sum wraps around
usize_add(a, b, w, overflow_checks) ==
    LET r == AddCarry(a, b, 0)
    IN IF Wide(r, w) /\ overflow_checks THEN <<>> ELSE as_usize(r, w)

\* faulty variant of check_asset: the payload is not hashed
check_asset_unhashed(data, asset, w, overflow_checks) ==
    LET start == as_usize(asset.offset, w)
        len == as_usize(asset.length, w)
        end == usize_add(start, len, w, overflow_checks)
    IN IF end = <<>> THEN "panic"
       ELSE IF Less(U64(FileLen(data)), end) THEN "corrupt"
       ELSE IF Less(end, start) THEN "panic"
       ELSE "ok"

\* the check_asset closure of cmd_verify on one asset row
check_asset(data, asset, w, overflow_checks) ==
    LET start == as_usize(asset.offset, w)
        len == as_usize(asset.length, w)
        end == usize_add(start, len, w, overflow_checks)
    IN IF end = <<>> THEN "panic"
       ELSE IF Less(U64(FileLen(data)), end) THEN "corrupt"
       ELSE IF Less(end, start) THEN "panic"
       ELSE IF U64(xxh3_64(Slice(data, Val(start), Val(len))))
               # asset.xxh3_hash
       THEN "corrupt"
       ELSE "ok"

\* what cmd_verify leaves behind: how it ended, what it found of the
\* directory hash, and the assets it reported as CORRUPT
Verdict(exit, dir, corrupt) == [exit |-> exit, dir |-> dir, corrupt |-> corrupt]

\* user_index.unwrap_or(-2): <<>> stands for None
unwrap_index(user_index) == IF user_index = <<>> THEN -2 ELSE user_index[1]

\* cmd_verify from the report of the directory hash on: results[i + 1] is
\* what check_asset gives for asset i; a panic ends the run at that asset
cmd_verify_assets(dir_ok, results, target_index) ==
    LET dir == IF dir_ok THEN "OK" ELSE "CORRUPT"
        checked == IF target_index >= 0 THEN {target_index}
                   ELSE 0..(Len(results) - 1)
        panics == {i \in checked :
                      i >= Len(results) \/ results[i + 1] = "panic"}
        first_panic == CHOOSE i \in panics : \A j \in panics : i <= j
        reported == {i \in checked :
                        /\ panics # {} => i < first_panic
                        /\ results[i + 1] = "corrupt"}
    IN IF target_index = -1
       THEN Verdict(IF dir_ok THEN "Ok" ELSE "Err", dir, {})
       ELSE IF panics # {} THEN Verdict("Panic", dir, reported)
       ELSE Verdict(IF dir_ok /\ reported = {} THEN "Ok" ELSE "Err",
                    dir, reported)

\* cmd_verify once the reader is open: the directory hash over
\* [meta_start, len - footer size), then the assets
cmd_verify_directory(data, reader, meta_start, target_index, w, overflow_checks) ==
    LET dir_end == FileLen(data) - FOOTER_SIZE
    IN IF Less(U64(dir_end), meta_start) THEN Verdict("Panic", "none", {})
       ELSE
       LET meta_size == dir_end - Val(meta_start)
           calc_index_hash == xxh3_64(Slice(data, Val(meta_start), meta_size))
           rows == reader_assets(data, reader).rows
       IN cmd_verify_assets(
              U64(calc_index_hash) = reader.footer.index_hash,
              [i \in 1..Len(rows) |->
                  check_asset(data, AssetRow(rows[i]), w, overflow_checks)],
              target_index)

\* cmd_verify after BBFReader::new has returned
cmd_verify_opened(data, reader, target_index, w, overflow_checks) ==
    IF reader.res # "Ok" THEN Verdict("Err", "none", {})
    ELSE cmd_verify_directory(
             data, reader, as_usize(reader.footer.string_pool_offset, w),
             target_index, w, overflow_checks)

\* cmd_verify on the bytes of the file, in a build whose usize has w bytes
\* and that has overflow checks or not
cmd_verify(data, user_index, w, overflow_checks) ==
    cmd_verify_opened(data, BBFReader_new(data, w),
                      unwrap_index(user_index), w, overflow_checks)

\* ------------------------------------- verifying what the builder wrote
RECURSIVE Tamper(_, _, _)
\* a copy of f in which the byte at offset pos is b
Tamper(f, pos, b) ==
    IF f = <<>> THEN <<>>
    ELSE LET r == Head(f)
         IN IF pos >= RunLen(r)
            THEN <<r>> \o Tamper(Tail(f), pos - RunLen(r), b)
            ELSE IF pos >= r.zeros
            THEN <<Run(r.zeros,
                       [r.bytes EXCEPT ![pos - r.zeros + 1] = b])>> \o Tail(f)
            ELSE <<Run(pos, <<b>>), Run(r.zeros - pos - 1, r.bytes)>>
                 \o Tail(f)

\* the inputs of the builder calls made before verifying
VerifyPayloads == {<<>>, <<1, 2>>, <<7>>}
VerifyStrings == {<<97>>}
UserIndexes == {<<>>, <<-1>>, <<1>>}
\* the builds of bbfmux: 64-bit with overflow checks, 32-bit without
Builds == {<<8, TRUE>>, <<4, FALSE>>}

\* the directory region [string_pool_offset, end of the metadata table) and
\* the asset payload ranges of a finalized file, read from its bytes
Layout(f) ==
    LET foot == read_footer(f)
        at == Val(foot.asset_table_offset)
        rows == [i \in 1..Val(foot.asset_count) |->
                    AssetRow(Slice(f, at + (i - 1) * ASSET_SIZE, ASSET_SIZE))]
    IN [dir_start |-> Val(foot.string_pool_offset),
        dir_end |-> Val(foot.meta_table_offset)
                    + Val(foot.key_count) * META_SIZE,
        tables |-> {at, Val(foot.page_table_offset),
                    Val(foot.section_table_offset),
                    Val(foot.meta_table_offset)},
        payloads |-> [i \in 1..Len(rows) |->
                         [start |-> Val(rows[i].offset),
                          end |-> Val(rows[i].offset) + Val(rows[i].length)]]]

\* the offsets at which a copy of the file is changed: the first and last
\* byte of every asset payload, of the pool and the tables as a whole, the
\* first byte of each table, the length and hash fields of the first asset
\* row, and two offsets outside all of these (header and padding)
TamperSpots(f) ==
    LET l == Layout(f)
        at == Val(read_footer(f).asset_table_offset)
    IN {4, HEADER_SIZE}
       \cup {p \in {l.dir_start, l.dir_end - 1, at + 8, at + 24}
                    \cup l.tables :
                l.dir_start <= p /\ p < l.dir_end}
       \cup UNION {{p \in {l.payloads[i].start, l.payloads[i].end - 1} :
                       l.payloads[i].start <= p /\ p < l.payloads[i].end} :
                   i \in 1..Len(l.payloads)}

\* the values a changed byte can take, given the one it had
OtherBytes(b) == {(b + 1) % 256, (b + 128) % 256}

\* the files handed to cmd_verify: the file the builder wrote (pos = -1)
\* and its copies that differ from it in the one byte at pos
Copies(f) ==
    {[pos |-> -1, bytes |-> f]}
    \cup UNION {{[pos |-> pos, bytes |-> Tamper(f, pos, b)] :
                    b \in OtherBytes(ByteAt(f, pos))} :
                pos \in TamperSpots(f)}

\* cmd_verify on the file the builder wrote or on a changed copy of it
verify_file(copy, user_index, w, overflow_checks) ==
    /\ bstate = "finalized"
    /\ acc = NoCall
    /\ input' = copy.bytes
    /\ acc' = [op |-> IF copy.pos < 0 THEN "verify_file" ELSE "verify_copy",
               arg |-> [user_index |-> user_index, w |-> w,
                        overflow_checks |-> overflow_checks,
                        pos |-> copy.pos],
               out |-> cmd_verify(copy.bytes, user_index, w,
                                  overflow_checks)]
    /\ UNCHANGED <<bvars, hvars, wvars, plan, rd, srd>>

NextVerify ==
    \/ \E data \in VerifyPayloads : add_page(data, Png, 0)
    \/ \E title \in VerifyStrings : add_section(title, 0, <<>>)
    \/ \E key \in VerifyStrings, value \in VerifyStrings :
           add_metadata(key, value)
    \/ finalize
    \/ /\ bstate = "finalized"
       /\ acc = NoCall
       /\ \E copy \in Copies(writer), user_index \in UserIndexes,
             build \in Builds :
              verify_file(copy, user_index, build[1], build[2])

SpecVerify == Init /\ [][NextVerify]_vars

\* ------------------------------------- claims on verifying builder output
\* C11: in every finalized file, footer.index_hash is the hash of the bytes
\* [string_pool_offset, meta_table_offset + key_count * 8), this range ends
\* where the footer begins (the range cmd_verify hashes), and cmd_verify on
\* the untouched file finds the directory hash OK.
C11_DirectoryHash ==
    bstate = "finalized" =>
        LET l == Layout(writer)
        IN /\ read_footer(writer).index_hash =
                  U64(xxh3_64(Slice(writer, l.dir_start,
                                    l.dir_end - l.dir_start)))
           /\ l.dir_end = FileLen(writer) - FOOTER_SIZE
           /\ acc.op = "verify_file" => acc.out.dir = "OK"

\* C11 witness: cmd_verify with index -1 passed on a file that has a page,
\* a section and so a pool that is not empty
C11_Witness ==
    /\ acc.op = "verify_file"
    /\ acc.arg.user_index = <<-1>>
    /\ acc.out = Verdict("Ok", "OK", {})
    /\ Len(pages) > 0
    /\ Len(sections) > 0

\* the assets (1-based) whose payload range holds offset pos
AssetsAt(l, pos) ==
    {i \in 1..Len(l.payloads) :
        l.payloads[i].start <= pos /\ pos < l.payloads[i].end}

\* asset index k (0-based) is one that cmd_verify checks
Checks(user_index, k) == unwrap_index(user_index) \in {-2, k}

WrapperPayloads == {<<1, 2>>, <<7>>}

\* what a wrapper call returned: Ok with a value, Io or AlreadyFinalized
Res(kind, val) == [kind |-> kind, val |-> val]
NoRes == Res("none", 0)

Running(pc, op, data, after) ==
    [pc |-> pc, op |-> op, data |-> data, res |-> NoRes, after |-> after]

\* the calls made so far on the wrapper, returned or not
OpsStarted == Len(log) + Cardinality({t \in Threads : thr[t].pc # "idle"})

\* a thread enters BbfBuilder::add_page or BbfBuilder::finalize; `after`
\* records that the slot was already empty when the call was made
wrapper_call(t, op, data) ==
    /\ thr[t].pc = "idle"
    /\ OpsStarted < MaxOps
    /\ thr' = [thr EXCEPT ![t] = Running("lock", op, data, inner = "None")]
    /\ UNCHANGED <<bvars, hvars, rvars, plan, inner, lock, log, heap>>

\* faulty variant of mutex_free: the lock is granted while it is held
mutex_free_always(l) == TRUE

\* Mutex::lock returns only while no other thread holds the guard
mutex_free(l) == l = 0

\* self.inner.lock().unwrap()
wrapper_lock(t) ==
    /\ thr[t].pc = "lock"
    /\ mutex_free(lock)
    /\ lock' = t
    /\ thr' = [thr EXCEPT ![t].pc = "guarded"]
    /\ UNCHANGED <<bvars, hvars, rvars, plan, inner, log, heap>>

\* faulty variant of Option_take: the slot keeps the builder
Option_take_keeps(slot) == slot

\* Option::take: what is left in the slot
Option_take(slot) == "None"

\* guard.as_mut() of add_page and guard.take() of finalize
wrapper_test(t) ==
    /\ thr[t].pc = "guarded"
    /\ IF inner = "None"
       THEN /\ thr' = [thr EXCEPT ![t].pc = "unlock",
                                  ![t].res = Res("AlreadyFinalized", 0)]
            /\ UNCHANGED inner
       ELSE IF thr[t].op = "add_page"
       THEN /\ thr' = [thr EXCEPT ![t].pc = "apply"]
            /\ UNCHANGED inner
       ELSE /\ thr' = [thr EXCEPT ![t].pc = "write"]
            /\ inner' = Option_take(inner)
    /\ UNCHANGED <<bvars, hvars, rvars, plan, lock, log, heap>>

\* builder.add_page(&data, mt, flags) returns Ok(asset_index)
wrapper_add_page_ok(t) ==
    /\ thr[t].pc = "apply"
    /\ BBFBuilder_add_page(thr[t].data, Png, 0)
    /\ thr' = [thr EXCEPT ![t].pc = "unlock",
                          ![t].res = Res("Ok", Last(page_calls').ret)]
    /\ UNCHANGED <<bstate, rvars, plan, inner, lock, log, heap>>

\* BBFBuilder::add_page fails in write_all: at the padding, which then is
\* not counted, or at the payload, after the padding was written and
\* counted; the failed write leaves a part of its bytes in the sink
BBFBuilder_add_page_io(data) ==
    /\ xxh3_64(data) \notin DOMAIN dedupe_map
    /\ LET padding == align_padding(current_offset)
       IN \/ /\ padding > 0
             /\ \E n \in {0, padding - 1} :
                    writer' = IF n = 0 THEN writer
                              ELSE Append(writer, Run(n, <<>>))
             /\ UNCHANGED current_offset
          \/ /\ data # <<>>
             /\ \E n \in 0..(Len(data) - 1) :
                    writer' = write_all(
                                 IF padding > 0
                                 THEN Append(writer, Run(padding, <<>>))
                                 ELSE writer, SubSeq(data, 1, n))
             /\ current_offset' = current_offset + padding
    /\ UNCHANGED <<assets, pages, sections, metadata, string_pool,
                   dedupe_map, string_map, bstate, hvars>>

\* BBFBuilder::finalize returns Ok(())
BBFBuilder_finalize_ok ==
    /\ writer' = finalize_output.writer
    /\ bstate' = "finalized"
    /\ UNCHANGED <<current_offset, assets, pages, sections, metadata,
                   string_pool, dedupe_map, string_map, hvars>>

\* BBFBuilder::finalize fails in one of its write_all calls: the writes
\* before it are in the sink
BBFBuilder_finalize_io ==
    /\ \E n \in Len(writer)..(Len(finalize_output.writer) - 1) :
           writer' = SubSeq(finalize_output.writer, 1, n)
    /\ bstate' = "failed"
    /\ UNCHANGED <<current_offset, assets, pages, sections, metadata,
                   string_pool, dedupe_map, string_map, hvars>>

\* builder.add_page(&data, mt, flags) returns an I/O error
wrapper_add_page_io(t) ==
    /\ thr[t].pc = "apply"
    /\ BBFBuilder_add_page_io(thr[t].data)
    /\ thr' = [thr EXCEPT ![t].pc = "unlock", ![t].res = Res("Io", 0)]
    /\ UNCHANGED <<rvars, plan, inner, lock, log, heap>>

\* builder.finalize() on the builder taken out of the slot returns Ok(())
wrapper_finalize_ok(t) ==
    /\ thr[t].pc = "write"
    /\ BBFBuilder_finalize_ok
    /\ thr' = [thr EXCEPT ![t].pc = "unlock", ![t].res = Res("Ok", 0)]
    /\ UNCHANGED <<rvars, plan, inner, lock, log, heap>>

\* builder.finalize() returns an I/O error
wrapper_finalize_io(t) ==
    /\ thr[t].pc = "write"
    /\ BBFBuilder_finalize_io
    /\ thr' = [thr EXCEPT ![t].pc = "unlock", ![t].res = Res("Io", 0)]
    /\ UNCHANGED <<rvars, plan, inner, lock, log, heap>>

\* the guard is dropped and the call returns
wrapper_return(t) ==
    /\ thr[t].pc = "unlock"
    /\ lock' = IF lock = t THEN 0 ELSE lock
    /\ log' = Append(log, [t |-> t, op |-> thr[t].op, data |-> thr[t].data,
                           res |-> thr[t].res, after |-> thr[t].after])
    /\ thr' = [thr EXCEPT ![t] = Idle]
    /\ UNCHANGED <<bvars, hvars, rvars, plan, inner, heap>>

NextBinding ==
    \/ \E t \in Threads, data \in WrapperPayloads :
           wrapper_call(t, "add_page", data)
    \/ \E t \in Threads : wrapper_call(t, "finalize", <<>>)
    \/ \E t \in Threads : wrapper_lock(t)
    \/ \E t \in Threads : wrapper_test(t)
    \/ \E t \in Threads : wrapper_add_page_ok(t)
    \/ \E t \in Threads : wrapper_add_page_io(t)
    \/ \E t \in Threads : wrapper_finalize_ok(t)
    \/ \E t \in Threads : wrapper_finalize_io(t)
    \/ \E t \in Threads : wrapper_return(t)

SpecBinding == Init /\ [][NextBinding]_vars

\* ------------------------------------------- C boundary: CBbfBuilder
\* a call on the pointer that bbf_builder_new returned; `freed` records
\* that the Box behind the pointer had been freed when the call was made,
\* `ub` that the call read or freed that memory
FfiCall(op, data, res, ub) ==
    [op |-> op, data |-> data, res |-> res, freed |-> heap = "freed",
     ub |-> ub]

\* what a call that reads or frees freed memory can do: crash, or return
\* as a success or as a failure would
UbOutcomes == {Res("Crash", 0), Res("Ok", 0), Res("Fail", 0)}

\* bbf_builder_add_page on a live builder returns the asset index
ffi_add_page_ok(data) ==
    /\ heap = "live"
    /\ Len(log) < MaxOps
    /\ BBFBuilder_add_page(data, Png, 0)
    /\ log' = Append(log, FfiCall("add_page", data,
                                  Res("Ok", Last(page_calls').ret), FALSE))
    /\ UNCHANGED <<bstate, rvars, plan, inner, lock, thr, heap>>

\* bbf_builder_add_page on a live builder returns 0xFFFFFFFF: add_page
\* failed
ffi_add_page_io(data) ==
    /\ heap = "live"
    /\ Len(log) < MaxOps
    /\ BBFBuilder_add_page_io(data)
    /\ log' = Append(log, FfiCall("add_page", data, Res("Fail", 0), FALSE))
    /\ UNCHANGED <<rvars, plan, inner, lock, thr, heap>>

\* bbf_builder_add_page after bbf_builder_finalize: &mut (*builder).0
\* points into the freed Box
ffi_add_page_freed(data) ==
    /\ heap = "freed"
    /\ Len(log) < MaxOps
    /\ \E res \in UbOutcomes :
           log' = Append(log, FfiCall("add_page", data, res, TRUE))
    /\ UNCHANGED <<bvars, hvars, rvars, plan, inner, lock, thr, heap>>

\* bbf_builder_finalize on a live builder: Box::from_raw takes the Box,
\* finalize consumes it, and 0 is returned
ffi_finalize_ok ==
    /\ heap = "live"
    /\ Len(log) < MaxOps
    /\ BBFBuilder_finalize_ok
    /\ heap' = "freed"
    /\ log' = Append(log, FfiCall("finalize", <<>>, Res("Ok", 0), FALSE))
    /\ UNCHANGED <<rvars, plan, inner, lock, thr>>

\* bbf_builder_finalize on a live builder returns -1: finalize failed
ffi_finalize_io ==
    /\ heap = "live"
    /\ Len(log) < MaxOps
    /\ BBFBuilder_finalize_io
    /\ heap' = "freed"
    /\ log' = Append(log, FfiCall("finalize", <<>>, Res("Fail", 0), FALSE))
    /\ UNCHANGED <<rvars, plan, inner, lock, thr>>

\* a second bbf_builder_finalize: Box::from_raw on the freed pointer, whose
\* builder is finalized and dropped again
ffi_finalize_freed ==
    /\ heap = "freed"
    /\ Len(log) < MaxOps
    /\ \E res \in UbOutcomes :
           log' = Append(log, FfiCall("finalize", <<>>, res, TRUE))
    /\ UNCHANGED <<bvars, hvars, rvars, plan, inner, lock, thr, heap>>

NextFfi ==
    \/ \E data \in WrapperPayloads : ffi_add_page_ok(data)
    \/ \E data \in WrapperPayloads : ffi_add_page_io(data)
    \/ \E data \in WrapperPayloads : ffi_add_page_freed(data)
    \/ ffi_finalize_ok
    \/ ffi_finalize_io
    \/ ffi_finalize_freed

SpecFfi == Init /\ [][NextFfi]_vars

\* ------------------------------------------- claims on the BbfBuilder
\* a finalize call has returned
FinalizeReturned == \E i \in 1..Len(log) : log[i].op = "finalize"

\* C13: once a finalize call has returned (Ok or Io), no step writes to the
\* sink and every call that returns afterwards returns AlreadyFinalized;
\* an add_page returns AlreadyFinalized only after a finalize has returned.
C13_Lifecycle ==
    [][/\ FinalizeReturned => writer' = writer
       /\ Len(log') > Len(log) =>
              /\ FinalizeReturned =>
                     Last(log').res.kind = "AlreadyFinalized"
              /\ (/\ Last(log').op = "add_page"
                  /\ Last(log').res.kind = "AlreadyFinalized") =>
                     FinalizeReturned]_vars

\* C13 witness: finalize failed with an I/O error, and the add_page and
\* the finalize that followed both returned AlreadyFinalized
C13_Witness ==
    /\ Len(log) = 3
    /\ log[1].op = "finalize" /\ log[1].res.kind = "Io"
    /\ log[2].op = "add_page" /\ log[2].res.kind = "AlreadyFinalized"
    /\ log[3].op = "finalize" /\ log[3].res.kind = "AlreadyFinalized"

\* the threads that hold the guard
InGuard == {t \in Threads : thr[t].pc \in {"guarded", "apply", "write",
                                           "unlock"}}

\* the calls that have a result, returned or about to return
Answered ==
    {log[i] : i \in 1..Len(log)}
    \cup {[t |-> t, op |-> thr[t].op, data |-> thr[t].data,
           res |-> thr[t].res, after |-> thr[t].after] :
          t \in {u \in Threads : thr[u].pc = "unlock"}}

\* the finalize calls that took the builder out of the slot
Took ==
    {c \in Answered : c.op = "finalize" /\ c.res.kind \in {"Ok", "Io"}}
    \cup {[t |-> t] : t \in {u \in Threads : thr[u].pc = "write"}}

\* the add_page calls that returned an asset index, in order of return
Indexed(q) ==
    SelectSeq(q, LAMBDA c : c.op = "add_page" /\ c.res.kind = "Ok")

\* C14: at most one thread is inside the guard; at most one finalize takes
\* the builder, and one has once any finalize is answered; an add_page that
\* got an asset index was applied while the builder was in the slot, and
\* when the file is written the page table finalize wrote (the rows right
\* before the footer, no section or metadata being added here) holds
\* exactly the pages of these calls, in order; every call made after the
\* builder was taken is answered with AlreadyFinalized.
C14_Serialized ==
    /\ Cardinality(InGuard) <= 1
    /\ Cardinality(Took) <= 1
    /\ (\E c \in Answered : c.op = "finalize") => Cardinality(Took) = 1
    /\ \A c \in Answered : c.after => c.res.kind = "AlreadyFinalized"
    /\ \A t \in Threads :
           (/\ thr[t].pc = "unlock"
            /\ thr[t].op = "add_page"
            /\ thr[t].res.kind = "Ok") => inner = "Some"
    /\ bstate = "finalized" =>
           LET foot == read_footer(writer)
               got == Indexed(log)
               table == FileLen(writer) - FOOTER_SIZE - Len(got) * PAGE_SIZE
           IN /\ Val(foot.page_count) = Len(got)
              /\ \A i \in 1..Len(got) :
                     Slice(writer, table + (i - 1) * PAGE_SIZE, 4)
                     = U32(got[i].res.val)

\* C14 witness: an add_page got an index, another thread's finalize wrote
\* the file, and an add_page that was made before that finalize took the
\* builder but got the lock after it was answered AlreadyFinalized
C14_Witness ==
    /\ Len(log) = 3
    /\ log[1].op = "add_page" /\ log[1].res.kind = "Ok"
    /\ log[2].op = "finalize" /\ log[2].res.kind = "Ok"
    /\ log[3].op = "add_page" /\ log[3].res.kind = "AlreadyFinalized"
    /\ ~log[3].after
    /\ log[3].t # log[2].t

\* ------------------------------------------ claims on the C boundary
\* C15: a bbf_builder_finalize or bbf_builder_add_page made after
\* bbf_builder_finalize on the same pointer is answered with a failure that
\* tells 'already finalized' from other failures, and does not read or free
\* the freed builder.
C15_FfiAlreadyFinalized ==
    \A i \in 1..Len(log) :
        log[i].freed =>
            /\ ~log[i].ub
            /\ log[i].res.kind = "AlreadyFinalized"

\* ------------------------------------ page lookup on a constructed reader
NextGetPage ==
    \/ open_buffer
    \/ \E page_index \in PageIndexes : call_get_page(page_index)
    \/ \E page_index \in PageIndexes : call_ffi_get_page(page_index)

SpecGetPage == InitReader /\ [][NextGetPage]_vars

\* ------------------------------------------------ claims on get_page
\* C16: BbfReader::get_page and bbf_reader_get_page answer a page_index
\* that is not below page_count with an error, without a panic and without
\* output; for a page_index below page_count whose page names an asset that
\* get_asset returns, they answer with exactly that asset's bytes.
C16_GetPage ==
    acc.op \in {"get_page", "ffi_get_page"} =>
        IF ~Less(acc.arg, rd.footer.page_count)
        THEN acc.out.kind \notin {"Ok", "panic"} /\ acc.out.bytes = <<>>
        ELSE LET row == PageRow(Slice(input,
                            Val(rd.footer.page_table_offset)
                            + Val(acc.arg) * PAGE_SIZE, PAGE_SIZE))
                 asset == get_asset(input, rd, row.asset_index)
             IN asset.kind = "Ok" => acc.out = asset

\* ------------------------------------- claims on the layout of the output
\* the rows of a table of the finalized file, as raw bytes
FileRows(f, offset, count, row_size) ==
    [i \in 1..count |-> Slice(f, offset + (i - 1) * row_size, row_size)]

\* C17: in the finalized file the pool, the asset, page, section and
\* metadata tables and the footer follow each other without gaps in this
\* order, the pool holding the collected strings; every asset payload range
\* lies in [header size, string_pool_offset); every footer count is the
\* number of rows added.
C17_Layout ==
    bstate = "finalized" =>
        LET foot == read_footer(writer)
            sp == Val(foot.string_pool_offset)
            at == Val(foot.asset_table_offset)
            pt == Val(foot.page_table_offset)
            st == Val(foot.section_table_offset)
            mt == Val(foot.meta_table_offset)
        IN /\ Val(foot.asset_count) = Len(assets)
           /\ Val(foot.page_count) = Len(page_calls)
           /\ Val(foot.section_count) = Len(section_calls)
           /\ Val(foot.key_count) = Len(meta_calls)
           /\ at = sp + Len(string_pool)
           /\ pt = at + Len(assets) * ASSET_SIZE
           /\ st = pt + Len(page_calls) * PAGE_SIZE
           /\ mt = st + Len(section_calls) * SECTION_SIZE
           /\ FileLen(writer) = mt + Len(meta_calls) * META_SIZE + FOOTER_SIZE
           /\ Slice(writer, sp, at - sp) = string_pool
           /\ \A i \in 1..Len(assets) :
                  LET row == at + (i - 1) * ASSET_SIZE
                      offset == Val(Slice(writer, row, 8))
                      length == Val(Slice(writer, row + 8, 8))
                  IN /\ HEADER_SIZE <= offset
                     /\ offset + length <= sp

\* C17 witness: a finalized file with an asset, a page, a pool that is not
\* empty and a section or metadata row
C17_Witness ==
    /\ bstate = "finalized"
    /\ Len(assets) > 0
    /\ Len(pages) > 0
    /\ Len(string_pool) > 0
    /\ Len(sections) + Len(metadata) > 0

\* C18: an add_page that adds an asset puts it at the least multiple of
\* 4096 at or above the write position, writes zero bytes up to there and
\* then the payload, and records the payload's length as length and
\* decoded_length; the asset ranges lie one after the other in index order.
C18_Alignment ==
    [][/\ Len(assets') > Len(assets) =>
              LET new == Last(assets')
                  data == Last(page_calls').data
              IN /\ new.offset % ALIGN = 0
                 /\ new.offset >= current_offset
                 /\ new.offset - current_offset < ALIGN
                 /\ FileLen(writer) = current_offset
                 /\ \A k \in {current_offset, new.offset - 1} :
                        k >= current_offset /\ k < new.offset =>
                            ByteAt(writer', k) = 0
                 /\ Slice(writer', new.offset, Len(data)) = data
                 /\ FileLen(writer') = new.offset + Len(data)
                 /\ new.length = Len(data)
                 /\ new.decoded_length = Len(data)
       /\ \A i \in 1..Len(assets'), j \in 1..Len(assets') :
              i < j => assets'[i].offset + assets'[i].length
                       <= assets'[j].offset]_vars

\* C18 witness: a second asset was placed at 8192, after a first asset
\* whose payload ends past 4096
C18_Witness ==
    /\ Len(assets) = 2
    /\ assets[1].length > 0
    /\ assets[2].offset = 2 * ALIGN

\* C19: every section row of the finalized file has a parent_section_index
\* that is the sentinel 0xFFFFFFFF or the index of an earlier section row.
C19_SectionParentValid ==
    bstate = "finalized" =>
        LET foot == read_footer(writer)
            rows == FileRows(writer, Val(foot.section_table_offset),
                             Val(foot.section_count), SECTION_SIZE)
        IN \A i \in 1..Len(rows) :
               LET parent == SectionRow(rows[i]).parent_section_index
               IN parent = NO_PARENT \/ Less(parent, U32(i - 1))

\* ------------------------------------------------- bbfmux: page planning
\* a file name with the extension .png, as bytes
PngName(c) == <<c, 46, 112, 110, 103>>

\* the file names of the input files
FileNames == {PngName(97), PngName(98), PngName(99), PngName(100), <<97>>}

\* the input paths: a directory and a file name; a.png is in two directories
Paths == {<<1, name>> : name \in FileNames} \cup {<<2, PngName(97)>>}

I32_MAX == 2147483647

\* the order files read: file name -> rank, as parsed by cmd_mux
OrderMaps ==
    {[name \in {PngName(99), PngName(100)} |->
          IF name = PngName(99) THEN 1 ELSE -1],
     [name \in FileNames |->
          CASE name = PngName(97) -> I32_MAX
            [] name = PngName(98) -> 1
            [] name = PngName(99) -> -I32_MAX
            [] name = PngName(100) -> -1
            [] OTHER -> 0],
     [name \in FileNames \ {<<97>>} |->
          IF name \in {PngName(97), PngName(98)} THEN 2 ELSE -1]}

\* Ord::cmp on integers
Ord_cmp(x, y) == IF x < y THEN "Less" ELSE IF x = y THEN "Equal" ELSE "Greater"

\* String::cmp: byte-wise lexicographic order
String_cmp(a, b) ==
    LET n == IF Len(a) < Len(b) THEN Len(a) ELSE Len(b)
        diff == {i \in 1..n : a[i] # b[i]}
    IN IF diff = {} THEN Ord_cmp(Len(a), Len(b))
       ELSE LET i == CHOOSE k \in diff : \A l \in diff : k <= l
            IN Ord_cmp(a[i], b[i])

\* faulty variant of compare_pages: plain order of the ranks
compare_pages_by_rank(a, b) == Ord_cmp(a.order, b.order)

\* compare_pages
compare_pages(a, b) ==
    LET x == a.order
        y == b.order
    IN IF x > 0 /\ y > 0 THEN Ord_cmp(x, y)
       ELSE IF x > 0 /\ y <= 0 THEN "Less"
       ELSE IF x <= 0 /\ y > 0 THEN "Greater"
       ELSE IF x = 0 /\ y = 0 THEN String_cmp(a.filename, b.filename)
       ELSE IF x = 0 /\ y < 0 THEN "Less"
       ELSE IF x < 0 /\ y = 0 THEN "Greater"
       ELSE Ord_cmp(x, y)

\* one step of a stable sort: x goes before the first element that
\* compares greater than it
insert_stable(sorted, x) ==
    LET later == {i \in 1..Len(sorted) :
                      compare_pages(sorted[i], x) = "Greater"}
        k == IF later = {} THEN Len(sorted) + 1
             ELSE CHOOSE i \in later : \A j \in later : i <= j
    IN SubSeq(sorted, 1, k - 1) \o <<x>> \o SubSeq(sorted, k, Len(sorted))

\* slice::sort_by(compare_pages): a stable sort
RECURSIVE sort_by(_)
sort_by(q) ==
    IF q = <<>> THEN <<>>
    ELSE insert_stable(sort_by(SubSeq(q, 1, Len(q) - 1)), q[Len(q)])

\* cmd_mux has read the order file, or has none
InitPlan ==
    /\ writer = <<>>
    /\ current_offset = 0
    /\ assets = <<>>
    /\ pages = <<>>
    /\ sections = <<>>
    /\ metadata = <<>>
    /\ string_pool = <<>>
    /\ dedupe_map = <<>>
    /\ string_map = <<>>
    /\ bstate = "none"
    /\ page_calls = <<>>
    /\ section_calls = <<>>
    /\ meta_calls = <<>>
    /\ input = <<>>
    /\ rd = NotOpened
    /\ srd = NotOpened
    /\ acc = NoCall
    /\ inner = "None"
    /\ lock = 0
    /\ thr = [t \in Threads |-> Idle]
    /\ log = <<>>
    /\ heap = "none"
    /\ \E order_map \in OrderMaps \cup {<<>>} :
           plan = [NoPlan EXCEPT !.pc = "listing",
                                 !.order_map = order_map]

\* add_to_manifest: the file name of the path and its rank, 0 if the order
\* file does not name it
add_to_manifest(path) ==
    /\ plan.pc = "listing"
    /\ Len(plan.manifest) < MaxPlan
    /\ LET filename == path[2]
           order == IF filename \in DOMAIN plan.order_map
                    THEN plan.order_map[filename] ELSE 0
       IN plan' = [plan EXCEPT !.manifest =
                       Append(@, [path |-> path, filename |-> filename,
                                  order |-> order])]
    /\ UNCHANGED <<bvars, hvars, rvars, wvars>>

\* manifest.sort_by(compare_pages), after the last input
sort_manifest ==
    /\ plan.pc = "listing"
    /\ plan' = [plan EXCEPT !.pc = "sorted",
                            !.manifest = sort_by(plan.manifest),
                            !.listed = plan.manifest]
    /\ UNCHANGED <<bvars, hvars, rvars, wvars>>

NextPlan ==
    \/ \E path \in Paths : add_to_manifest(path)
    \/ sort_manifest

SpecPlan == InitPlan /\ [][NextPlan]_vars

\* --------------------------------------------------- claims on the planner
\* the group of a rank: positive ranks first, then 0, then negative ranks
RankGroup(order) == IF order > 0 THEN 1 ELSE IF order = 0 THEN 2 ELSE 3

\* a is a prefix of b or has the smaller byte at the first difference
LexLeq(a, b) ==
    \/ /\ Len(a) <= Len(b)
       /\ \A i \in 1..Len(a) : a[i] = b[i]
    \/ \E i \in 1..Len(a) :
           /\ i <= Len(b)
           /\ a[i] < b[i]
           /\ \A j \in 1..(i - 1) : a[j] = b[j]

\* how often an entry occurs in a manifest
Occurrences(q, e) == Cardinality({i \in 1..Len(q) : q[i] = e})

\* the inputs b.png, a.png, c.png, d.png with c.png:1 and d.png:-1
ExampleListed ==
    <<[path |-> <<1, PngName(98)>>, filename |-> PngName(98), order |-> 0],
      [path |-> <<1, PngName(97)>>, filename |-> PngName(97), order |-> 0],
      [path |-> <<1, PngName(99)>>, filename |-> PngName(99), order |-> 1],
      [path |-> <<1, PngName(100)>>, filename |-> PngName(100),
       order |-> -1]>>

\* C20: the sorted manifest holds the listed entries, those of rank > 0
\* first by ascending rank, then those of rank 0 by ascending file name,
\* then those of rank < 0 by ascending rank; compare_pages is antisymmetric
\* and transitive on the entries; b.png(0), a.png(0), c.png(1), d.png(-1)
\* are ordered c, a, b, d.
C20_PageOrder ==
    plan.pc = "sorted" =>
        LET m == plan.manifest
            n == Len(m)
        IN /\ n = Len(plan.listed)
           /\ \A i \in 1..n :
                  Occurrences(m, m[i]) = Occurrences(plan.listed, m[i])
           /\ \A i \in 1..n, j \in 1..n :
                  i < j =>
                      /\ RankGroup(m[i].order) <= RankGroup(m[j].order)
                      /\ RankGroup(m[i].order) = RankGroup(m[j].order) =>
                             IF m[i].order = 0
                             THEN LexLeq(m[i].filename, m[j].filename)
                             ELSE m[i].order <= m[j].order
           /\ \A i \in 1..n, j \in 1..n :
                  /\ compare_pages(m[i], m[j]) = "Less"
                         <=> compare_pages(m[j], m[i]) = "Greater"
                  /\ compare_pages(m[i], m[j]) = "Equal"
                         <=> compare_pages(m[j], m[i]) = "Equal"
           /\ \A i \in 1..n, j \in 1..n, k \in 1..n :
                  /\ compare_pages(m[i], m[j]) # "Greater"
                  /\ compare_pages(m[j], m[k]) # "Greater"
                  => /\ compare_pages(m[i], m[k]) # "Greater"
                     /\ compare_pages(m[i], m[j]) = "Less"
                            \/ compare_pages(m[j], m[k]) = "Less"
                        => compare_pages(m[i], m[k]) = "Less"
           /\ plan.listed = ExampleListed =>
                  [i \in 1..n |-> m[i].filename]
                      = <<PngName(99), PngName(97), PngName(98),
                          PngName(100)>>

\* C20 witness: the example manifest was sorted
C20_Witness ==
    /\ plan.pc = "sorted"
    /\ plan.listed = ExampleListed
    /\ plan.manifest # plan.listed

\* ------------------------------------------- bbfmux: sections of cmd_mux
\* the characters ':' and '"'
COLON == 58
QUOTE == 34

RECURSIVE split(_, _)
\* str::split(sep): the parts between the separators, at least one part
split(s, sep) ==
    LET at == {i \in 1..Len(s) : s[i] = sep}
    IN IF at = {} THEN <<s>>
       ELSE LET i == CHOOSE k \in at : \A l \in at : k <= l
            IN <<SubSeq(s, 1, i - 1)>> \o split(SubSeq(s, i + 1, Len(s)), sep)

\* trim_quotes
trim_quotes(s) ==
    IF Len(s) >= 2 /\ s[1] = QUOTE /\ s[Len(s)] = QUOTE
    THEN SubSeq(s, 2, Len(s) - 1)
    ELSE s

\* char::is_numeric: the ASCII digits and, of the other numeric characters
\* of Unicode, superscript two and Arabic-Indic digit three
char_is_numeric(c) == c \in 48..57 \cup {178, 1635}

\* parts.get(n).unwrap_or(default)
get_or(parts, n, default) == IF n < Len(parts) THEN parts[n + 1] ELSE default

\* parse_section_string
parse_section_string(s) ==
    LET parts == split(s, COLON)
        target == trim_quotes(get_or(parts, 1, <<49>>))
    IN [name |-> trim_quotes(get_or(parts, 0, <<>>)),
        target |-> target,
        parent |-> trim_quotes(get_or(parts, 2, <<>>)),
        is_filename |-> ~ \A i \in 1..Len(target) : char_is_numeric(target[i])]

RECURSIVE parse_digits(_, _)
\* the digit loop of u32::from_str: <<>> stands for Err
parse_digits(result, s) ==
    IF s = <<>> THEN result
    ELSE IF Head(s) \notin 48..57 THEN <<>>
    ELSE LET m == checked_mul(result, 10)
             a == IF m = <<>> THEN <<>> ELSE checked_add(m, U32(Head(s) - 48))
         IN IF a = <<>> THEN <<>> ELSE parse_digits(a, Tail(s))

\* str::parse::<u32>: an optional '+', then one or more ASCII digits
parse_u32(s) ==
    LET digits == IF s # <<>> /\ s[1] = 43 THEN Tail(s) ELSE s
    IN IF digits = <<>> THEN <<>> ELSE parse_digits(U32(0), digits)

RECURSIVE wrapping_dec(_)
\* a - 1 on the bytes of a, for a > 0
wrapping_dec(a) ==
    IF a[1] > 0 THEN <<a[1] - 1>> \o Tail(a)
    ELSE <<255>> \o wrapping_dec(Tail(a))

\* faulty variant of saturating_sub_1: the 1-based number is kept
saturating_sub_1_kept(a) == a

\* u32::saturating_sub(1)
saturating_sub_1(a) == IF a = U32(0) THEN a ELSE wrapping_dec(a)

\* the page index of a section directive (main.rs:195-207); the targets of
\* the model are below 2^24, where Val is exact
target_page_idx(req, file_to_page_idx) ==
    IF req.is_filename
    THEN IF req.target \in DOMAIN file_to_page_idx
         THEN file_to_page_idx[req.target]
         ELSE 0
    ELSE LET parsed == parse_u32(req.target)
         IN Val(saturating_sub_1(IF parsed = <<>> THEN U32(1) ELSE parsed))

\* faulty variant of section_name_insert: the first section of a name stays
section_name_insert_first(m, name, i) ==
    IF name \in DOMAIN m THEN m ELSE map_insert(m, name, i)

\* section_name_to_idx.insert(req.name.clone(), i as u32)
section_name_insert(m, name, i) == map_insert(m, name, i)

\* the parent index of a section directive (main.rs:209-213)
resolve_parent(req, section_name_to_idx) ==
    IF req.parent # <<>> /\ req.parent \in DOMAIN section_name_to_idx
    THEN <<section_name_to_idx[req.parent]>>
    ELSE <<>>

\* BBFBuilder::add_section on the builder fields it changes
BBFBuilder_add_section(st, title, start_page, parent_idx) ==
    LET t == get_or_add_str(st.string_pool, st.string_map, title)
    IN [st EXCEPT
           !.string_pool = t.pool,
           !.string_map = t.map,
           !.sections = Append(@,
               [section_title_offset |-> t.offset,
                section_start_index |-> start_page,
                parent_section_index |-> unwrap_parent(parent_idx)]),
           !.section_calls = Append(@,
               [title |-> title, start_page |-> start_page,
                parent_idx |-> parent_idx])]

RECURSIVE section_loop(_, _, _, _)
\* the loop over sec_reqs (main.rs:194-217), from directive i on
section_loop(st, sec_reqs, i, file_to_page_idx) ==
    IF i >= Len(sec_reqs) THEN st
    ELSE LET req == sec_reqs[i + 1]
             added == BBFBuilder_add_section(
                          st, req.name,
                          target_page_idx(req, file_to_page_idx),
                          resolve_parent(req, st.section_name_to_idx))
         IN section_loop(
                [added EXCEPT !.section_name_to_idx =
                                  section_name_insert(@, req.name, i)],
                sec_reqs, i + 1, file_to_page_idx)

\* Path::extension: what follows the last '.', unless the name starts
\* with its only '.'
path_extension(filename) ==
    LET dots == {i \in 2..Len(filename) : filename[i] = 46}
    IN IF dots = {} THEN <<>>
       ELSE LET i == CHOOSE k \in dots : \A l \in dots : l <= k
            IN SubSeq(filename, i + 1, Len(filename))

\* str::to_lowercase, on ASCII
to_lowercase(s) ==
    [i \in 1..Len(s) |-> IF s[i] \in 65..90 THEN s[i] + 32 ELSE s[i]]

\* BBFMediaType::from_extension
from_extension(ext) ==
    LET e == to_lowercase(ext)
    IN CASE e = <<46, 112, 110, 103>> -> Png
         [] e = <<46, 106, 112, 103>> -> Jpg
         [] e = <<46, 106, 112, 101, 103>> -> Jpg
         [] e = <<46, 97, 118, 105, 102>> -> Avif
         [] e = <<46, 119, 101, 98, 112>> -> Webp
         [] e = <<46, 106, 120, 108>> -> Jxl
         [] e = <<46, 98, 109, 112>> -> Bmp
         [] e = <<46, 103, 105, 102>> -> Gif
         [] e = <<46, 116, 105, 102, 102>> -> Tiff
         [] OTHER -> Unknown

\* fs::read(&p.path): the content of an input file; a.png has the same
\* content in both directories
FileData(path) == <<path[2][1], 1>>

\* the input paths of a run that builds; a path may be listed twice
MuxPaths == {<<1, PngName(97)>>, <<1, PngName(99)>>}

\* the section directives: A:c.png  B:3:A  "B":z.png:"B"  C:0:Z
\* D:99999999999:B  E:<superscript two>
SectionLines ==
    {<<65, 58>> \o PngName(99),
     <<66, 58, 51, 58, 65>>,
     <<34, 66, 34, 58>> \o PngName(122) \o <<58, 34, 66, 34>>,
     <<67, 58, 48, 58, 90>>,
     <<68, 58, 57, 57, 57, 57, 57, 57, 57, 57, 57, 57, 57, 58, 66>>,
     <<69, 58, 178>>}

\* the lists of at most n directives
DirectiveLists(n) ==
    UNION {[1..k -> SectionLines] : k \in 0..n}

\* cmd_mux has read the order file c.png:1, d.png:-1
InitMux ==
    /\ writer = <<>>
    /\ current_offset = 0
    /\ assets = <<>>
    /\ pages = <<>>
    /\ sections = <<>>
    /\ metadata = <<>>
    /\ string_pool = <<>>
    /\ dedupe_map = <<>>
    /\ string_map = <<>>
    /\ bstate = "none"
    /\ page_calls = <<>>
    /\ section_calls = <<>>
    /\ meta_calls = <<>>
    /\ input = <<>>
    /\ rd = NotOpened
    /\ srd = NotOpened
    /\ acc = NoCall
    /\ inner = "None"
    /\ lock = 0
    /\ thr = [t \in Threads |-> Idle]
    /\ log = <<>>
    /\ heap = "none"
    /\ plan = [NoPlan EXCEPT
                   !.pc = "listing",
                   !.order_map = [name \in {PngName(99), PngName(100)} |->
                                     IF name = PngName(99) THEN 1 ELSE -1]]

\* add_to_manifest on one more input of a run that builds
mux_input(path) ==
    /\ Len(plan.manifest) < MaxInputs
    /\ add_to_manifest(path)

\* File::create and BBFBuilder::new (main.rs:172-175)
mux_create ==
    /\ plan.pc = "sorted"
    /\ writer' = write_all(<<>>, header_as_bytes)
    /\ current_offset' = HEADER_SIZE
    /\ bstate' = "open"
    /\ plan' = [plan EXCEPT !.pc = "pages"]
    /\ UNCHANGED <<assets, pages, sections, metadata, string_pool,
                   dedupe_map, string_map, hvars, rvars, wvars>>

\* one round of the loop over the manifest (main.rs:177-190)
mux_add_page ==
    /\ plan.pc = "pages"
    /\ Len(page_calls) < Len(plan.manifest)
    /\ LET i == Len(page_calls)
           p == plan.manifest[i + 1]
           ext == path_extension(p.path[2])
       IN /\ BBFBuilder_add_page(FileData(p.path),
                                 from_extension(<<46>> \o ext), 0)
          /\ plan' = [plan EXCEPT !.file_to_page_idx =
                                      map_insert(@, p.filename, i)]
    /\ UNCHANGED <<bstate, rvars, wvars>>

\* the section directives are parsed (main.rs:147-160) and added
\* (main.rs:192-217); there are no metadata directives
mux_sections(lines) ==
    /\ plan.pc = "pages"
    /\ Len(page_calls) = Len(plan.manifest)
    /\ LET sec_reqs == [i \in 1..Len(lines) |-> parse_section_string(lines[i])]
           st == section_loop(
                     [string_pool |-> string_pool, string_map |-> string_map,
                      sections |-> sections, section_calls |-> section_calls,
                      section_name_to_idx |-> <<>>],
                     sec_reqs, 0, plan.file_to_page_idx)
       IN /\ string_pool' = st.string_pool
          /\ string_map' = st.string_map
          /\ sections' = st.sections
          /\ section_calls' = st.section_calls
          /\ plan' = [plan EXCEPT !.pc = "sections", !.sec_reqs = sec_reqs]
    /\ UNCHANGED <<writer, current_offset, assets, pages, metadata,
                   dedupe_map, bstate, page_calls, meta_calls, rvars, wvars>>

\* builder.finalize() (main.rs:223)
mux_finalize ==
    /\ plan.pc = "sections"
    /\ writer' = finalize_output.writer
    /\ bstate' = "finalized"
    /\ plan' = [plan EXCEPT !.pc = "done"]
    /\ UNCHANGED <<current_offset, assets, pages, sections, metadata,
                   string_pool, dedupe_map, string_map, hvars, rvars, wvars>>

NextMux ==
    \/ \E path \in MuxPaths : mux_input(path)
    \/ sort_manifest
    \/ mux_create
    \/ mux_add_page
    \/ \E lines \in DirectiveLists(MaxDirectives) : mux_sections(lines)
    \/ mux_finalize

SpecMux == InitMux /\ [][NextMux]_vars

\* ------------------------------------------- claims on cmd_mux's sections
RECURSIVE Decimal(_)
\* the number that a string of at most nine ASCII digits denotes
Decimal(t) ==
    IF t = <<>> THEN 0
    ELSE Decimal(SubSeq(t, 1, Len(t) - 1)) * 10 + (t[Len(t)] - 48)

\* the target is a decimal number that fits u32; the targets of the model
\* have at most nine digits or denote more than 2^32
Parses(t) == t # <<>> /\ Len(t) <= 9 /\ \A i \in 1..Len(t) : t[i] \in 48..57

\* the section rows of the finalized file
SectionRowsOf(f) ==
    LET foot == read_footer(f)
        rows == FileRows(f, Val(foot.section_table_offset),
                         Val(foot.section_count), SECTION_SIZE)
    IN [i \in 1..Len(rows) |-> SectionRow(rows[i])]

\* C21: a numeric target N >= 1 gives start page N - 1, a numeric target
\* that is 0 or does not parse gives 0, a file name target gives the
\* position of an emitted page of that name in the sorted order, or 0 if
\* there is none; every directive is added and the file is finalized with
\* these start pages.
C21_SectionTarget ==
    plan.pc \in {"sections", "done"} =>
        /\ Len(section_calls) = Len(plan.sec_reqs)
        /\ Len(page_calls) = Len(plan.manifest)
        /\ \A k \in 1..Len(plan.manifest) :
               page_calls[k].data = FileData(plan.manifest[k].path)
        /\ \A i \in 1..Len(plan.sec_reqs) :
               LET req == plan.sec_reqs[i]
                   got == section_calls[i].start_page
                   named == {k \in 1..Len(plan.manifest) :
                                plan.manifest[k].filename = req.target}
               IN IF ~req.is_filename
                  THEN IF Parses(req.target) /\ Decimal(req.target) >= 1
                       THEN got = Decimal(req.target) - 1
                       ELSE got = 0
                  ELSE IF named # {} THEN got + 1 \in named
                  ELSE got = 0
        /\ plan.pc = "done" =>
               /\ bstate = "finalized"
               /\ [i \in 1..Len(section_calls) |->
                      U32(section_calls[i].start_page)]
                  = [i \in 1..Len(SectionRowsOf(writer)) |->
                        SectionRowsOf(writer)[i].section_start_index]

\* C21 witness: a finalized run with a numeric target above 1, a file name
\* target that names the second page, and one that names no page
C21_Witness ==
    /\ plan.pc = "done"
    /\ \E i, j, k \in 1..Len(plan.sec_reqs) :
           /\ ~plan.sec_reqs[i].is_filename
           /\ section_calls[i].start_page = 2
           /\ plan.sec_reqs[j].is_filename
           /\ section_calls[j].start_page = 1
           /\ plan.sec_reqs[k].is_filename
           /\ plan.sec_reqs[k].target \notin DOMAIN plan.file_to_page_idx

\* the directives before directive i that define the name
EarlierNamed(name, i) == {j \in 1..(i - 1) : plan.sec_reqs[j].name = name}

\* C22: a parent name that is not empty resolves to the most recent earlier
\* directive of that name; an empty, forward, self or unknown parent gives
\* no parent; every parent index handed to add_section is below the index
\* of the section added.
C22_SectionParent ==
    plan.pc \in {"sections", "done"} =>
        /\ Len(section_calls) = Len(plan.sec_reqs)
        /\ \A i \in 1..Len(plan.sec_reqs) :
               LET req == plan.sec_reqs[i]
                   got == section_calls[i].parent_idx
                   earlier == EarlierNamed(req.parent, i)
               IN /\ IF req.parent # <<>> /\ earlier # {}
                     THEN got = <<(CHOOSE j \in earlier :
                                      \A l \in earlier : l <= j) - 1>>
                     ELSE got = <<>>
                  /\ got # <<>> => got[1] < i - 1
        /\ plan.pc = "done" =>
               \A i \in 1..Len(section_calls) :
                   SectionRowsOf(writer)[i].parent_section_index
                       = unwrap_parent(section_calls[i].parent_idx)

\* C22 witness: a finalized run in which a parent name was defined twice
\* before the directive that names it, and one with a self reference
C22_Witness ==
    /\ plan.pc = "done"
    /\ \E i \in 1..Len(plan.sec_reqs) :
           /\ Cardinality(EarlierNamed(plan.sec_reqs[i].parent, i)) = 2
           /\ section_calls[i].parent_idx = <<1>>

\* -------------------------------------------------------- bbfmux extract
\* the variants of BBFMediaType
BBFMediaType == {"Unknown", "Avif", "Png", "Webp", "Jxl", "Bmp", "Gif",
                 "Tiff", "Jpg"}

\* `t as u8`: the discriminant of a variant
as_u8(t) ==
    CASE t = "Avif" -> Avif
      [] t = "Png" -> Png
      [] t = "Webp" -> Webp
      [] t = "Jxl" -> Jxl
      [] t = "Bmp" -> Bmp
      [] t = "Gif" -> Gif
      [] t = "Tiff" -> Tiff
      [] t = "Jpg" -> Jpg
      [] t = "Unknown" -> Unknown

\* faulty variant of BBFMediaType::from: the gap at 6 decodes as Gif
BBFMediaType_from_gap(v) ==
    CASE v = 1 -> "Avif"
      [] v = 2 -> "Png"
      [] v = 3 -> "Webp"
      [] v = 4 -> "Jxl"
      [] v = 5 -> "Bmp"
      [] v \in {6, 7} -> "Gif"
      [] v = 8 -> "Tiff"
      [] v = 9 -> "Jpg"
      [] OTHER -> "Unknown"

\* BBFMediaType::from(u8)
BBFMediaType_from(v) ==
    CASE v = 1 -> "Avif"
      [] v = 2 -> "Png"
      [] v = 3 -> "Webp"
      [] v = 4 -> "Jxl"
      [] v = 5 -> "Bmp"
      [] v = 7 -> "Gif"
      [] v = 8 -> "Tiff"
      [] v = 9 -> "Jpg"
      [] OTHER -> "Unknown"

\* BBFMediaType::as_extension
as_extension(t) ==
    CASE t = "Png" -> <<46, 112, 110, 103>>
      [] t = "Jpg" -> <<46, 106, 112, 103>>
      [] t = "Avif" -> <<46, 97, 118, 105, 102>>
      [] t = "Webp" -> <<46, 119, 101, 98, 112>>
      [] t = "Jxl" -> <<46, 106, 120, 108>>
      [] t = "Bmp" -> <<46, 98, 109, 112>>
      [] t = "Gif" -> <<46, 103, 105, 102>>
      [] t = "Tiff" -> <<46, 116, 105, 102, 102>>
      [] OTHER -> <<46, 98, 105, 110>>

\* a byte to decode, not yet decoded
InitMedia ==
    /\ writer = <<>>
    /\ current_offset = 0
    /\ assets = <<>>
    /\ pages = <<>>
    /\ sections = <<>>
    /\ metadata = <<>>
    /\ string_pool = <<>>
    /\ dedupe_map = <<>>
    /\ string_map = <<>>
    /\ bstate = "none"
    /\ page_calls = <<>>
    /\ section_calls = <<>>
    /\ meta_calls = <<>>
    /\ input \in {<<v>> : v \in 0..255}
    /\ rd = NotOpened
    /\ srd = NotOpened
    /\ acc = NoCall
    /\ inner = "None"
    /\ lock = 0
    /\ thr = [t \in Threads |-> Idle]
    /\ log = <<>>
    /\ heap = "none"
    /\ plan = NoPlan

\* BBFMediaType::from on the byte
media_from ==
    /\ acc = NoCall
    /\ acc' = [op |-> "from", arg |-> input[1],
               out |-> BBFMediaType_from(input[1])]
    /\ UNCHANGED <<bvars, hvars, wvars, plan, rd, srd, input>>

\* the variant cast back to its byte
media_as_u8 ==
    /\ acc.op = "from"
    /\ acc' = [op |-> "as_u8", arg |-> acc.out, out |-> as_u8(acc.out)]
    /\ UNCHANGED <<bvars, hvars, wvars, plan, rd, srd, input>>

\* the byte of the cast decoded again
media_from_again ==
    /\ acc.op = "as_u8"
    /\ acc' = [op |-> "from_as_u8", arg |-> acc.arg,
               out |-> BBFMediaType_from(acc.out)]
    /\ UNCHANGED <<bvars, hvars, wvars, plan, rd, srd, input>>

NextMedia == media_from \/ media_as_u8 \/ media_from_again

SpecMedia == InitMedia /\ [][NextMedia]_vars

\* str::contains
contains(s, pat) ==
    \E i \in 0..(Len(s) - Len(pat)) : SubSeq(s, i + 1, i + Len(pat)) = pat

\* faulty variant of starts_after: a section at the same page ends the range
starts_after_or_at(next_start, start_idx) == next_start >= start_idx

\* next_s.section_start_index.get() > start_idx
starts_after(next_start, start_idx) == next_start > start_idx

\* the test of the inner loop on a later section (main.rs:392-408);
\* range_key is <<>> for None and <<rk>> for Some(rk)
ends_range(next_title, next_start, start_idx, range_key) ==
    IF range_key # <<>> /\ range_key[1] # <<>>
    THEN contains(next_title, range_key[1])
    ELSE starts_after(next_start, start_idx)

\* the range that cmd_extract computes (main.rs:370-417) from the section
\* titles and start indexes; section_filter is <<>> or <<filter>>
extract_range(titles, starts, page_count, section_filter, range_key) ==
    IF section_filter = <<>>
    THEN [res |-> "Ok", start_idx |-> 0, end_idx |-> page_count]
    ELSE LET found == {i \in 1..Len(titles) : titles[i] = section_filter[1]}
         IN IF found = {}
            THEN [res |-> "Err", start_idx |-> 0, end_idx |-> page_count]
            ELSE LET i == CHOOSE k \in found : \A l \in found : k <= l
                     later == {j \in (i + 1)..Len(titles) :
                                  ends_range(titles[j], starts[j], starts[i],
                                             range_key)}
                 IN [res |-> "Ok",
                     start_idx |-> starts[i],
                     end_idx |->
                         IF later = {} THEN page_count
                         ELSE starts[CHOOSE k \in later :
                                         \A l \in later : k <= l]]

\* the files written for the pages of the range (main.rs:426-444): the
\* page number, the extension and the bytes; a row or a byte range outside
\* the file is a panic
extract_pages(data, page_rows, asset_rows, range) ==
    LET last == IF range.end_idx < Len(page_rows) THEN range.end_idx
                ELSE Len(page_rows)
        file(i) ==
            LET index == Val(PageRow(page_rows[i + 1]).asset_index)
            IN IF index >= Len(asset_rows) THEN <<>>
               ELSE LET asset == AssetRow(asset_rows[index + 1])
                    IN IF Val(asset.offset) + Val(asset.length)
                              > FileLen(data)
                       THEN <<>>
                       ELSE <<[page |-> i + 1,
                               ext |-> as_extension(
                                           BBFMediaType_from(asset.type_)),
                               bytes |-> Slice(data, Val(asset.offset),
                                               Val(asset.length))]>>
    IN IF range.res # "Ok" THEN [range EXCEPT !.res = "Err"] @@ [files |-> <<>>]
       ELSE IF \E i \in range.start_idx..(last - 1) : file(i) = <<>>
       THEN [range EXCEPT !.res = "Panic"] @@ [files |-> <<>>]
       ELSE range @@ [files |-> [k \in 1..(last - range.start_idx) |->
                                    file(range.start_idx + k - 1)[1]]]

\* the title of a section row: get_string(..).unwrap_or("")
section_title(data, reader, row) ==
    LET s == get_string(data, reader, SectionRow(row).section_title_offset)
    IN IF s.kind = "Some" THEN s.bytes ELSE <<>>

\* cmd_extract after BBFReader::new has returned
cmd_extract_opened(data, reader, section_rows, page_rows, section_filter, range_key) ==
    extract_pages(
        data, page_rows, reader_assets(data, reader).rows,
        extract_range(
            [i \in 1..Len(section_rows) |->
                section_title(data, reader, section_rows[i])],
            [i \in 1..Len(section_rows) |->
                Val(SectionRow(section_rows[i]).section_start_index)],
            Len(page_rows), section_filter, range_key))

\* cmd_extract on the bytes of the file
cmd_extract_reader(data, reader, section_filter, range_key) ==
    IF reader.res # "Ok"
    THEN [res |-> "Err", start_idx |-> 0, end_idx |-> 0, files |-> <<>>]
    ELSE cmd_extract_opened(data, reader, reader_sections(data, reader).rows,
                            reader_pages(data, reader).rows,
                            section_filter, range_key)

cmd_extract(data, section_filter, range_key) ==
    cmd_extract_reader(data, BBFReader_new(data, 8), section_filter, range_key)

\* the section titles Ch1 and Ch2
Ch(n) == <<67, 104, 48 + n>>

\* the sections of the books: title and start index
BookSections == {<<Ch(1), 1>>, <<Ch(2), 5>>, <<Ch(1), 5>>, <<Ch(2), 1>>}

\* the page counts of the books
BookPages == {3, 10}

\* --section: none, Ch1, Ch2, X
SectionFilters == {<<>>, <<Ch(1)>>, <<Ch(2)>>, <<<<88>>>>}

\* --rangekey: none, "", "2", "Ch"
RangeKeys == {<<>>, <<<<>>>>, <<<<50>>>>, <<<<67, 104>>>>}

RECURSIVE book_sections(_, _)
\* the add_section calls of a book, on the builder fields they change
book_sections(st, secs) ==
    IF secs = <<>> THEN st
    ELSE book_sections(
             BBFBuilder_add_section(st, Head(secs)[1], Head(secs)[2], <<>>),
             Tail(secs))

\* a builder after n add_page calls with one payload and the add_section
\* calls of a book
InitBook ==
    \E n \in BookPages :
    \E secs \in UNION {[1..k -> BookSections] : k \in 0..MaxBookSections} :
        LET st == book_sections(
                      [string_pool |-> <<>>, string_map |-> <<>>,
                       sections |-> <<>>, section_calls |-> <<>>], secs)
            hash == xxh3_64(<<7>>)
        IN /\ writer = write_all(Append(write_all(<<>>, header_as_bytes),
                                        Run(ALIGN - HEADER_SIZE, <<>>)),
                                 <<7>>)
           /\ current_offset = ALIGN + 1
           /\ assets = <<new_asset_entry(ALIGN, 1, hash, Png)>>
           /\ pages = [i \in 1..n |-> [asset_index |-> 0, flags |-> 0]]
           /\ sections = st.sections
           /\ metadata = <<>>
           /\ string_pool = st.string_pool
           /\ dedupe_map = dedupe_insert(<<>>, hash, 0)
           /\ string_map = st.string_map
           /\ bstate = "open"
           /\ page_calls = [i \in 1..n |->
                               [data |-> <<7>>, media_type |-> Png,
                                flags |-> 0, ret |-> 0]]
           /\ section_calls = st.section_calls
           /\ meta_calls = <<>>
           /\ input = <<>>
           /\ rd = NotOpened
           /\ srd = NotOpened
           /\ acc = NoCall
           /\ inner = "None"
           /\ lock = 0
           /\ thr = [t \in Threads |-> Idle]
           /\ log = <<>>
           /\ heap = "none"
           /\ plan = NoPlan

\* bbfmux extract on the finalized book
extract(section_filter, range_key) ==
    /\ bstate = "finalized"
    /\ acc = NoCall
    /\ input' = writer
    /\ acc' = [op |-> "cmd_extract",
               arg |-> [section_filter |-> section_filter,
                        range_key |-> range_key],
               out |-> cmd_extract(writer, section_filter, range_key)]
    /\ UNCHANGED <<bvars, hvars, wvars, plan, rd, srd>>

NextExtract ==
    \/ finalize
    \/ \E section_filter \in SectionFilters, range_key \in RangeKeys :
           extract(section_filter, range_key)

SpecExtract == InitBook /\ [][NextExtract]_vars

\* ----------------------------------------------- claims on bbfmux extract
\* the later section j ends the range of target i under the boundary rule
Boundary(i, j, range_key) ==
    IF range_key # <<>> /\ range_key[1] # <<>>
    THEN \E a \in 1..Len(section_calls[j].title),
            b \in 0..Len(section_calls[j].title) :
             SubSeq(section_calls[j].title, a, b) = range_key[1]
    ELSE section_calls[j].start_page > section_calls[i].start_page

\* C23: with a section filter, cmd_extract fails if no section has that
\* title; otherwise the range starts at the start index of the first such
\* section and ends at the start index of the first later section that
\* satisfies the boundary rule, or at page_count; sections (Ch1, 1),
\* (Ch2, 5) over 10 pages give [1, 5) for Ch1 and [5, 10) for Ch2.
C23_ExtractRange ==
    acc.op = "cmd_extract" /\ acc.arg.section_filter # <<>> =>
        LET filter == acc.arg.section_filter[1]
            n == Len(section_calls)
            targets == {i \in 1..n : section_calls[i].title = filter}
        IN IF targets = {} THEN acc.out.res = "Err"
           ELSE \E i \in targets :
                    /\ \A k \in targets : i <= k
                    /\ acc.out.res = "Ok"
                    /\ acc.out.start_idx = section_calls[i].start_page
                    /\ \/ /\ \A j \in (i + 1)..n :
                                 ~Boundary(i, j, acc.arg.range_key)
                          /\ acc.out.end_idx = Len(page_calls)
                       \/ \E j \in (i + 1)..n :
                              /\ Boundary(i, j, acc.arg.range_key)
                              /\ \A k \in (i + 1)..(j - 1) :
                                     ~Boundary(i, k, acc.arg.range_key)
                              /\ acc.out.end_idx = section_calls[j].start_page
                    /\ /\ n = 2
                       /\ section_calls[1].title = Ch(1)
                       /\ section_calls[1].start_page = 1
                       /\ section_calls[2].title = Ch(2)
                       /\ section_calls[2].start_page = 5
                       /\ Len(page_calls) = 10
                       /\ acc.arg.range_key = <<>>
                       => <<acc.out.start_idx, acc.out.end_idx>>
                              = IF filter = Ch(1) THEN <<1, 5>> ELSE <<5, 10>>

\* C23 witness: Ch1 of the book (Ch1, 1), (Ch2, 5) with 10 pages gave [1, 5)
C23_Witness ==
    /\ acc.op = "cmd_extract"
    /\ acc.arg = [section_filter |-> <<Ch(1)>>, range_key |-> <<>>]
    /\ Len(section_calls) = 2
    /\ section_calls[2] = [title |-> Ch(2), start_page |-> 5,
                           parent_idx |-> <<>>]
    /\ Len(page_calls) = 10
    /\ acc.out.start_idx = 1
    /\ acc.out.end_idx = 5
    /\ Len(acc.out.files) = 4

\* ------------------------------------------------ claims on BBFMediaType
\* C24: BBFMediaType::from returns a variant for each of the 256 bytes:
\* 1, 2, 3, 4, 5, 7, 8, 9 give Avif, Png, Webp, Jxl, Bmp, Gif, Tiff, Jpg,
\* every other byte (0 and the gap 6 among them) gives Unknown, and for
\* each of the nine variants t, from(t as u8) is t.
C24_MediaType ==
    /\ acc.op = "from" =>
           /\ acc.out \in BBFMediaType
           /\ acc.out = IF acc.arg = 1 THEN "Avif"
                        ELSE IF acc.arg = 2 THEN "Png"
                        ELSE IF acc.arg = 3 THEN "Webp"
                        ELSE IF acc.arg = 4 THEN "Jxl"
                        ELSE IF acc.arg = 5 THEN "Bmp"
                        ELSE IF acc.arg = 7 THEN "Gif"
                        ELSE IF acc.arg = 8 THEN "Tiff"
                        ELSE IF acc.arg = 9 THEN "Jpg"
                        ELSE "Unknown"
    /\ acc.op = "from_as_u8" => acc.out = acc.arg
    /\ \A t \in BBFMediaType : BBFMediaType_from(as_u8(t)) = t

\* C24 witness: the gap byte 6 was decoded, to Unknown, and Unknown cast
\* and decoded again
C24_Witness ==
    /\ input = <<6>>
    /\ acc.op = "from_as_u8"
    /\ acc.arg = "Unknown"
    /\ acc.out = "Unknown"

\* ------------------------------------------- claims on a failing add_page
\* C25: an add_page call that returns an I/O error, the sink failing at
\* the padding or at the payload, leaves the asset table, the page table,
\* the dedup map and the recorded write offset as they were before the call.
C25_FailureAtomic ==
    [][\A t \in Threads :
           thr[t].pc = "apply" /\ thr'[t].res.kind = "Io" =>
               UNCHANGED <<assets, pages, dedupe_map, current_offset>>]_vars

\* ------------------------------------------------ claims on ties of ranks
\* the (filename, rank) pairs of a manifest, in its order
RankedNames(m) == [i \in 1..Len(m) |-> <<m[i].filename, m[i].order>>]

\* C26: the page order of cmd_mux depends only on the (filename, rank)
\* pairs and not on the order in which the inputs were listed: listing the
\* same inputs in any other order sorts to the same sequence of pairs, and
\* compare_pages returns Equal only for two entries with the same rank and
\* the same file name.
C26_OrderDeterministic ==
    plan.pc = "sorted" =>
        LET n == Len(plan.listed)
        IN /\ \A p \in Permutations(1..n) :
                  RankedNames(sort_by([i \in 1..n |-> plan.listed[p[i]]]))
                      = RankedNames(plan.manifest)
           /\ \A i \in 1..n, j \in 1..n :
                  compare_pages(plan.listed[i], plan.listed[j]) = "Equal" =>
                      /\ plan.listed[i].order = plan.listed[j].order
                      /\ plan.listed[i].filename = plan.listed[j].filename

\* ------------------------------------- pages added, written and extracted
\* a builder takes add_page calls, the book is finalized and bbfmux extract
\* writes all of its pages
NextDedup ==
    \/ \E data \in Payloads, media_type \in MediaTypes, flags \in Flags :
           add_page(data, media_type, flags)
    \/ finalize
    \/ extract(<<>>, <<>>)

SpecDedup == Init /\ [][NextDedup]_vars

\* ------------------------------------------ claims on merged page payloads
\* the first add_page call whose payload has the content hash of call k
FirstHashed(k) ==
    CHOOSE j \in 1..k :
        /\ xxh3_64(page_calls[j].data) = xxh3_64(page_calls[k].data)
        /\ \A l \in 1..(j - 1) :
               xxh3_64(page_calls[l].data) # xxh3_64(page_calls[k].data)

\* C27: an add_page call whose payload has the content hash of an earlier,
\* different payload writes nothing to the sink and adds no AssetEntry; its
\* page references the earlier asset, and reading the page back gives the
\* earlier payload's bytes.
C27_CollisionMerge ==
    LET n == Len(page_calls)
    IN /\ Len(pages) = n
       /\ \A k \in 1..n :
              /\ page_calls[k].ret = page_calls[FirstHashed(k)].ret
              /\ pages[k].asset_index = page_calls[FirstHashed(k)].ret
       /\ Len(assets)
              = Cardinality({xxh3_64(page_calls[k].data) : k \in 1..n})
       /\ \A k \in 1..n :
              LET asset == assets[page_calls[k].ret + 1]
              IN /\ asset.length = Len(page_calls[FirstHashed(k)].data)
                 /\ Slice(writer, asset.offset, asset.length)
                        = page_calls[FirstHashed(k)].data
       /\ current_offset = IF assets = <<>> THEN HEADER_SIZE
                           ELSE assets[Len(assets)].offset
                                    + assets[Len(assets)].length
       /\ bstate = "open" => FileLen(writer) = current_offset
       /\ acc.op = "cmd_extract" =>
              /\ acc.out.res = "Ok"
              /\ Len(acc.out.files) = n
              /\ \A k \in 1..n :
                     acc.out.files[k].bytes = page_calls[FirstHashed(k)].data

\* C27 witness: a page whose payload collided with an earlier, different
\* payload was extracted with the earlier payload's bytes
C27_Witness ==
    /\ acc.op = "cmd_extract"
    /\ \E k \in 1..Len(page_calls) :
           /\ page_calls[FirstHashed(k)].data # page_calls[k].data
           /\ acc.out.files[k].bytes # page_calls[k].data
           /\ acc.out.files[k].bytes = page_calls[FirstHashed(k)].data

\* C29: an add_page call with the bytes of an existing asset and another
\* media type leaves the AssetEntry and its type tag as the storing call
\* wrote them; the page reads back with the media type of the first call
\* that stored those bytes.
C29_DedupMediaType ==
    LET n == Len(page_calls)
    IN /\ \A k \in 1..n :
              /\ assets[page_calls[k].ret + 1].type_
                     = page_calls[FirstHashed(k)].media_type
              /\ pages[k] = [asset_index |-> page_calls[FirstHashed(k)].ret,
                             flags |-> page_calls[k].flags]
       /\ acc.op = "cmd_extract" =>
              /\ Len(acc.out.files) = n
              /\ \A k \in 1..n :
                     acc.out.files[k].ext
                         = as_extension(BBFMediaType_from(
                               page_calls[FirstHashed(k)].media_type))

\* C29 witness: a page added with the bytes of an earlier call and another
\* media type was extracted with the extension of the earlier call's type
C29_Witness ==
    /\ acc.op = "cmd_extract"
    /\ \E k \in 1..Len(page_calls) :
           /\ FirstHashed(k) # k
           /\ page_calls[FirstHashed(k)].data = page_calls[k].data
           /\ page_calls[FirstHashed(k)].media_type = Png
           /\ page_calls[k].media_type = Jpg
           /\ acc.out.files[k].ext = <<46, 112, 110, 103>>

\* ----------------------------------------- bbfmux verify on crafted files
\* string pool offsets around the start of the footer
VerifyPoolOffsets ==
    {U64(19), U64(CraftLen - FOOTER_SIZE), U64(CraftLen - FOOTER_SIZE + 1),
     U64(CraftLen)}

\* crafted files with the page, section and metadata tables in place
VerifyInputs ==
    {Craft(hm, fm, sp, at, ac, <<U64(283), U32(2)>>, <<U64(299), U32(1)>>,
           <<U64(311), U32(1)>>) :
        hm \in Magics, fm \in Magics, sp \in VerifyPoolOffsets,
        at \in {U64(27), U64(CraftLen)}, ac \in {U32(0), U32(4)}}

\* bbfmux verify is about to read one of the crafted files
InitCrafted ==
    /\ writer = <<>>
    /\ current_offset = 0
    /\ assets = <<>>
    /\ pages = <<>>
    /\ sections = <<>>
    /\ metadata = <<>>
    /\ string_pool = <<>>
    /\ dedupe_map = <<>>
    /\ string_map = <<>>
    /\ bstate = "none"
    /\ page_calls = <<>>
    /\ section_calls = <<>>
    /\ meta_calls = <<>>
    /\ input \in VerifyInputs
    /\ rd = NotOpened
    /\ srd = NotOpened
    /\ acc = NoCall
    /\ inner = "None"
    /\ lock = 0
    /\ thr = [t \in Threads |-> Idle]
    /\ log = <<>>
    /\ heap = "none"
    /\ plan = NoPlan

\* cmd_verify on the input, in the build of the reader that opened it
verify_input(user_index, overflow_checks) ==
    /\ rd # NotOpened
    /\ acc = NoCall
    /\ acc' = [op |-> "cmd_verify",
               arg |-> [user_index |-> user_index, w |-> rd.usize,
                        overflow_checks |-> overflow_checks],
               out |-> cmd_verify(input, user_index, rd.usize,
                                  overflow_checks)]
    /\ UNCHANGED <<bvars, hvars, wvars, plan, input, rd, srd>>

NextCrafted ==
    \/ open_buffer
    \/ \E user_index \in UserIndexes, overflow_checks \in BOOLEAN :
           verify_input(user_index, overflow_checks)

SpecCrafted == InitCrafted /\ [][NextCrafted]_vars

\* ------------------------------------ claims on cmd_verify's arithmetic
\* C28: for every file that BBFReader::new accepts, cmd_verify's length
\* file_length - footer_size - string_pool_offset is not negative, that is
\* string_pool_offset <= file_length - footer_size, and the sum
\* start + length of each asset's bounds test does not wrap around.
C28_NoUnderflow ==
    acc.op = "cmd_verify" /\ rd.res = "Ok" =>
        /\ Leq(rd.footer.string_pool_offset, U64(InputLen - FOOTER_SIZE))
        /\ \A i \in 1..Len(reader_assets(input, rd).rows) :
               LET asset == AssetRow(reader_assets(input, rd).rows[i])
               IN ~Wide(AddCarry(as_usize(asset.offset, rd.usize),
                                 as_usize(asset.length, rd.usize), 0),
                        rd.usize)

\* ------------------------------------------- example-webapp: Builder, Reader
\* the events of the web Reader; acc holds the last one and, as its out,
\* the page_idx signal after it
WebEvents == {"handle_file", "next_page_logic", "prev_page_logic",
              "section_click"}

\* the page_idx signal: 0 until an event sets it
page_idx == IF acc.op \in WebEvents THEN acc.out ELSE 0

\* the book signal holds a reader
book_loaded == rd.res = "Ok"

\* compile, at a File entry of the list: add_page with the file's bytes
compile_file(data, media_type) == add_page(data, media_type, 0)

\* compile, at a Section entry of the list: the section starts at the
\* number of pages added so far
compile_section(name) == add_section(name, Len(page_calls), <<>>)

\* handle_file: the reader of a valid file becomes the book and page_idx
\* is set to 0; an invalid file changes the status line only
handle_file ==
    /\ bstate = "finalized"
    /\ LET r == BBFReader_new(writer, 4)
       IN IF r.res = "Ok"
          THEN /\ input' = writer
               /\ rd' = r
               /\ acc' = [op |-> "handle_file", arg |-> <<>>, out |-> 0]
          ELSE UNCHANGED <<input, rd, acc>>
    /\ UNCHANGED <<bvars, hvars, wvars, plan, srd>>

\* the Next button and a click on the right half of the page, shown for a
\* loaded book
next_page_logic ==
    /\ book_loaded
    /\ acc' = [op |-> "next_page_logic", arg |-> <<>>,
               out |-> IF /\ book_loaded
                          /\ page_idx + 1 < Len(reader_pages(input, rd).rows)
                       THEN page_idx + 1 ELSE page_idx]
    /\ UNCHANGED <<bvars, hvars, wvars, plan, input, rd, srd>>

\* the Previous button and a click on the left half of the page
prev_page_logic ==
    /\ book_loaded
    /\ acc' = [op |-> "prev_page_logic", arg |-> <<>>,
               out |-> IF page_idx > 0 THEN page_idx - 1 ELSE page_idx]
    /\ UNCHANGED <<bvars, hvars, wvars, plan, input, rd, srd>>

\* a click on item i of the section list, which is shown for a loaded book
section_click(i) ==
    /\ book_loaded
    /\ i \in 1..Len(reader_sections(input, rd).rows)
    /\ acc' = [op |-> "section_click", arg |-> i,
               out |-> Val(SectionRow(reader_sections(input, rd).rows[i])
                               .section_start_index)]
    /\ UNCHANGED <<bvars, hvars, wvars, plan, input, rd, srd>>

NextWeb ==
    \/ \E data \in Payloads, media_type \in MediaTypes :
           compile_file(data, media_type)
    \/ \E name \in Strings : compile_section(name)
    \/ finalize
    \/ handle_file
    \/ next_page_logic
    \/ prev_page_logic
    \/ \E i \in 1..MaxCalls : section_click(i)

SpecWeb == Init /\ [][NextWeb]_vars

\* -------------------------------------------- claims on the web Reader
\* C30: for a loaded book with at least one page, after any file loads,
\* Next clicks, Previous clicks and section clicks, the current page index
\* is below page_count; the books written by the web Builder, whose section
\* markers start at the number of file entries before them, are among them.
C30_PageIndexInBook ==
    book_loaded /\ Len(reader_pages(input, rd).rows) >= 1 =>
        page_idx < Len(reader_pages(input, rd).rows)

====
